---- MODULE Spec2Model ----
(***************************************************************************)
(* Green Heaven restaurant system (src/app.py): the local JSON file store  *)
(* with backups and atomic rename, the remote-first / local-fallback       *)
(* repository (load_data, save_data, add_document, update_document), the   *)
(* daily-totals aggregator and the order request handlers.                 *)
(*                                                                         *)
(* Money is counted in hundredths (cents), so the 0.01 tolerance of        *)
(* place_order is 1.  A JSON file is a sequence of tokens; json.dump and   *)
(* json.loads are the operators json_dump and json_loads.                  *)
(***************************************************************************)
EXTENDS Integers, Sequences, FiniteSets, TLC

VARIABLES
    disk,       \* data/ directory: live files, .tmp files, backups/, write stamp
    now,        \* wall clock in seconds (names the backup files)
    inflight,   \* the save_data_local call in progress (file-store specs)
    saved,      \* per collection: the list of the last save that returned
    supabase,   \* TRUE iff the remote client was initialised at start-up
    faults,     \* TRUE iff the remote service is unreachable: every call to it raises
    remote,     \* remote tables: orders, manual_orders, daily_totals
    today,      \* current calendar date (day number)
    nextId,     \* number of identifiers (uuid4) handed out so far
    op,         \* name of the last operation
    req,        \* arguments of the last operation
    resp,       \* response / return value of the last operation
    published,  \* events emitted by the last operation, in order
    rfail,      \* TRUE iff a remote call raised during the last operation
    staff_alerts,   \* the in-memory list of active alerts
    menu_items,     \* the in-memory list of menu items
    menu_table,     \* the rows of the remote menu_items table
    threads,        \* concurrent calls: position, arguments and local list of each
    storage_lock    \* the thread holding storage_lock, 0 when it is free

memVars == <<staff_alerts, menu_items, menu_table>>

concVars == <<threads, storage_lock>>

vars == <<disk, now, inflight, saved, supabase, faults, remote, today,
          nextId, op, req, resp, published, rfail, memVars, concVars>>

(***************************************************************************)
(* Bounds of the model.                                                    *)
(***************************************************************************)
MaxLen == 1        \* longest record list handed to save_data_local
MaxSaves == 2      \* file writes explored by the file-store specification
RotSaves == 15     \* saves explored by the backup-rotation specification
RepoWrites == 2    \* local file writes explored by the repository specification
MaxOrders == 2     \* identifiers (orders, manual orders) handed out by the handlers
MaxDay == 2        \* calendar days the handler specification runs through
MaxWrites == 3     \* local file writes after which the handlers stop writing
MaxItems == 2      \* items of an order in the item-list specification

(***************************************************************************)
(* Program constants.                                                      *)
(***************************************************************************)
KEEP == 10         \* cleanup_old_backups(collection_name, keep=10)
TOLERANCE == 1     \* abs(calculated_total - total) > 0.01, in hundredths

Collections == {"orders", "manual_orders", "daily_totals"}   \* file_mapping

(***************************************************************************)
(* JSON text as tokens.                                                    *)
(***************************************************************************)
LB == [t |-> "["]
RB == [t |-> "]"]
COMMA == [t |-> ","]
Obj(r) == [t |-> "obj", v |-> r]
BADBYTE == [t |-> "0xff"]      \* a byte that is not valid UTF-8

\* file.read() with encoding='utf-8' returns the text
Decodes(text) == \A i \in 1..Len(text) : text[i] # BADBYTE

RECURSIVE JoinObjs(_)
JoinObjs(L) ==
    IF L = <<>> THEN <<>>
    ELSE IF Len(L) = 1 THEN <<Obj(L[1])>>
    ELSE <<Obj(L[1]), COMMA>> \o JoinObjs(Tail(L))

\* json.dump(data, file): the whole text of a list of records.
json_dump(L) == <<LB>> \o JoinObjs(L) \o <<RB>>

\* json.loads(content): [ok |-> TRUE, val |-> list] or a JSONDecodeError.
json_loads(text) ==
    IF Len(text) < 2 \/ text[1].t # "[" \/ text[Len(text)].t # "]"
    THEN [ok |-> FALSE, val |-> <<>>]
    ELSE LET body == SubSeq(text, 2, Len(text) - 1) IN
         IF body = <<>> THEN [ok |-> TRUE, val |-> <<>>]
         ELSE IF Len(body) % 2 = 0 THEN [ok |-> FALSE, val |-> <<>>]
         ELSE IF \A i \in 1..Len(body) :
                    IF i % 2 = 1 THEN body[i].t = "obj" ELSE body[i].t = ","
              THEN [ok |-> TRUE,
                    val |-> [i \in 1..((Len(body) + 1) \div 2) |-> body[2 * i - 1].v]]
              ELSE [ok |-> FALSE, val |-> <<>>]

(***************************************************************************)
(* The data directory.                                                     *)
(*   files[c]   the live file of collection c                              *)
(*   tmp[c]     the file c + ".tmp"                                        *)
(*   backups[c] the files backups/c_<name>.json, each with the text and    *)
(*              the modification time copy2 took over from the live file   *)
(*   stamp      modification time given to the next file written           *)
(***************************************************************************)
NoFile == [exists |-> FALSE, text |-> <<>>, mtime |-> 0]

EmptyDisk ==
    [files   |-> [c \in Collections |-> NoFile],
     tmp     |-> [c \in Collections |-> NoFile],
     backups |-> [c \in Collections |-> {}],
     stamp   |-> 1]

\* The backup files of c, newest modification time first.
RECURSIVE SortByMtimeDesc(_)
SortByMtimeDesc(S) ==
    IF S = {} THEN <<>>
    ELSE LET newest == CHOOSE b \in S : \A o \in S : o.mtime <= b.mtime
         IN <<newest>> \o SortByMtimeDesc(S \ {newest})

\* cleanup_old_backups: with more than keep backups, unlink all but the
\* keep newest by modification time.
cleanup_old_backups(d, c) ==
    LET backup_files == SortByMtimeDesc(d.backups[c]) IN
    IF Len(backup_files) > KEEP
    THEN [d EXCEPT !.backups[c] =
              {backup_files[i] : i \in 1..KEEP}]
    ELSE d

\* create_backup: nothing when the live file is absent; otherwise clean up
\* first, then copy2 the live file to backups/c_<timestamp>.json (a file of
\* the same name is overwritten).
create_backup(d, c, clock) ==
    IF ~d.files[c].exists THEN d
    ELSE LET d1 == cleanup_old_backups(d, c) IN
         [d1 EXCEPT !.backups[c] =
              {b \in d1.backups[c] : b.name # clock}
                 \cup {[name |-> clock, text |-> d.files[c].text,
                        mtime |-> d.files[c].mtime]}]

\* open_tmp as it would be if the live file were opened for writing too
open_tmp_live(d, c) ==
    [d EXCEPT !.tmp[c] = [exists |-> TRUE, text |-> <<>>, mtime |-> d.stamp],
              !.files[c] = [exists |-> TRUE, text |-> <<>>, mtime |-> d.stamp],
              !.stamp = d.stamp + 1]

\* open(temp_filename, 'w'): the temporary file exists and is empty.
open_tmp(d, c) ==
    [d EXCEPT !.tmp[c] = [exists |-> TRUE, text |-> <<>>, mtime |-> d.stamp],
              !.stamp = d.stamp + 1]

\* json.dump writes the text into the open temporary file, up to n tokens.
write_tmp(d, c, text, n) ==
    [d EXCEPT !.tmp[c].text = SubSeq(text, 1, n)]

\* os_replace with its two arguments swapped
os_replace_swapped(d, c) ==
    [d EXCEPT !.tmp[c] = d.files[c], !.files[c] = NoFile]

\* os.replace(temp_filename, filename)
os_replace(d, c) ==
    [d EXCEPT !.files[c] = d.tmp[c], !.tmp[c] = NoFile]

\* save_data_local from start to return.
save_data_local(d, c, data, clock) ==
    LET text == json_dump(data) IN
    os_replace(write_tmp(open_tmp(create_backup(d, c, clock), c), c, text, Len(text)), c)

\* load_backup_data: the newest backup by modification time, [] when there
\* is none or reading or parsing it raises.
load_backup_data(d, c) ==
    IF d.backups[c] = {} THEN <<>>
    ELSE LET latest_backup == SortByMtimeDesc(d.backups[c])[1]
             parsed == json_loads(latest_backup.text)
         IN IF Decodes(latest_backup.text) /\ parsed.ok THEN parsed.val ELSE <<>>

\* load_data_local: [] for a missing or empty file, the parsed list, on a
\* JSONDecodeError the newest backup (or []), and [] on any other exception
\* (a UnicodeDecodeError of the read among them).
load_data_local(d, c) ==
    IF ~d.files[c].exists THEN <<>>
    ELSE IF ~Decodes(d.files[c].text) THEN <<>>
    ELSE IF d.files[c].text = <<>> THEN <<>>
    ELSE LET parsed == json_loads(d.files[c].text) IN
         IF parsed.ok THEN parsed.val ELSE load_backup_data(d, c)

(***************************************************************************)
(* The remote store.  Each table is the sequence of its rows in insertion  *)
(* order; the schema is that of setup_supabase.py.                         *)
(***************************************************************************)
\* columns of the remote tables
RemoteColumns ==
    [orders |-> {"id", "customer_name", "table_number", "items", "total_amount",
                 "status", "created_at", "updated_at"},
     manual_orders |-> {"id", "customer_name", "table_number", "items",
                        "total_amount", "order_date", "created_at"},
     daily_totals |-> {"id", "date", "digital_orders", "manual_orders",
                       "digital_revenue", "manual_revenue", "total_orders",
                       "total_revenue", "updated_at"}]

\* the status values the orders table accepts
RemoteStatuses == {"pending", "preparing", "ready", "delivered", "cancelled"}

Has(r, k) == k \in DOMAIN r

\* r with the key k bound to v (dict assignment)
Put(r, k, v) == [x \in (DOMAIN r) \cup {k} |-> IF x = k THEN v ELSE r[x]]

\* r without the key k (del)
Del(r, k) == [x \in (DOMAIN r) \ {k} |-> r[x]]

\* dict.update
Update(r, u) == [x \in (DOMAIN r) \cup (DOMAIN u) |-> IF x \in DOMAIN u THEN u[x] ELSE r[x]]

Reverse(s) == [i \in 1..Len(s) |-> s[Len(s) + 1 - i]]

\* does the table accept this row next to the rows it holds?
RowAccepted(c, tbl, row) ==
    /\ DOMAIN row \subseteq RemoteColumns[c]
    /\ (Has(row, "id") => \A i \in 1..Len(tbl) : tbl[i].id # row.id)
    /\ (c = "orders" =>
          /\ {"customer_name", "table_number", "items", "total_amount"} \subseteq DOMAIN row
          /\ (Has(row, "status") => row.status \in RemoteStatuses))
    /\ (c = "manual_orders" =>
          {"customer_name", "table_number", "items", "total_amount"} \subseteq DOMAIN row)
    /\ (c = "daily_totals" /\ Has(row, "date") =>
          \A i \in 1..Len(tbl) : tbl[i].date # row.date)

\* the row as stored: daily_totals rows get the id the database generates
\* (one per date, the date being unique)
StoredRow(c, row) ==
    IF c = "daily_totals" /\ ~Has(row, "id") THEN Put(row, "id", row.date) ELSE row

\* table(c).insert(rows).execute(): an exception, or all rows appended
RECURSIVE remote_insert(_, _, _, _)
remote_insert(r, c, rows, fail) ==
    IF fail THEN [ok |-> FALSE, r |-> r]
    ELSE IF rows = <<>> THEN [ok |-> TRUE, r |-> r]
    ELSE IF ~RowAccepted(c, r[c], rows[1]) THEN [ok |-> FALSE, r |-> r]
    ELSE LET rest == remote_insert([r EXCEPT ![c] = Append(r[c], StoredRow(c, rows[1]))],
                                   c, Tail(rows), FALSE)
         IN IF rest.ok THEN rest ELSE [ok |-> FALSE, r |-> r]

\* table(c).update(patch).eq('id', id).execute()
remote_update(r, c, id, patch, fail) ==
    LET hit == {i \in 1..Len(r[c]) : r[c][i].id = id} IN
    IF fail THEN [ok |-> FALSE, r |-> r]
    ELSE IF hit # {} /\ ~(DOMAIN patch \subseteq RemoteColumns[c])
         THEN [ok |-> FALSE, r |-> r]
    ELSE IF hit # {} /\ c = "orders" /\ Has(patch, "status") /\ patch.status \notin RemoteStatuses
         THEN [ok |-> FALSE, r |-> r]
    ELSE [ok |-> TRUE,
          r |-> [r EXCEPT ![c] = [i \in 1..Len(r[c]) |->
                     IF i \in hit THEN Update(r[c][i], patch) ELSE r[c][i]]]]

\* table(c).select("*").order(timestamp, desc=True).execute()
remote_select(r, c, fail) ==
    IF fail THEN [ok |-> FALSE, data |-> <<>>]
    ELSE [ok |-> TRUE, data |-> Reverse(r[c])]

(***************************************************************************)
(* The repository: remote first, local files on any exception.  A world w  *)
(* is [remote, disk]; every operator returns the world after the call, the *)
(* value returned, the events emitted and whether an exception escaped.    *)
(***************************************************************************)
Event(name, to, payload) == [name |-> name, to |-> to, payload |-> payload]

\* the mapping as it would be if the items were left as the stored text
from_remote_order_raw(row) ==
    LET r1 == IF Has(row, "total_amount") THEN Put(row, "total", row.total_amount) ELSE row
    IN IF Has(r1, "created_at") THEN Put(r1, "date", r1.created_at) ELSE r1

\* load_data maps a remote orders row to the local format
from_remote_order(row) ==
    LET r1 == IF Has(row, "total_amount") THEN Put(row, "total", row.total_amount) ELSE row
        r2 == IF Has(r1, "items")
              THEN LET parsed == json_loads(r1.items)
                   IN Put(r1, "items", IF parsed.ok THEN parsed.val ELSE <<>>)
              ELSE r1
    IN IF Has(r2, "created_at") THEN Put(r2, "date", r2.created_at) ELSE r2

\* add_document maps an order to the remote schema
to_remote_order(doc) ==
    LET d1 == IF Has(doc, "total") THEN Del(Put(doc, "total_amount", doc.total), "total") ELSE doc
        d2 == IF Has(d1, "items") THEN Put(d1, "items", json_dump(d1.items)) ELSE d1
        d3 == IF Has(d2, "date") THEN Del(d2, "date") ELSE d2
    IN d3

\* load_data as it would be if a remote error were answered with []
load_data_nofallback(w, c, fail) ==
    IF supabase
    THEN LET sel == remote_select(w.remote, c, fail) IN
         IF sel.ok
         THEN [ret |-> IF c = "orders"
                       THEN [i \in 1..Len(sel.data) |-> from_remote_order(sel.data[i])]
                       ELSE sel.data,
               raised |-> FALSE, rfail |-> FALSE]
         ELSE [ret |-> <<>>, raised |-> FALSE, rfail |-> TRUE]
    ELSE [ret |-> load_data_local(w.disk, c), raised |-> FALSE, rfail |-> FALSE]

load_data(w, c, fail) ==
    IF supabase
    THEN LET sel == remote_select(w.remote, c, fail) IN
         IF sel.ok
         THEN [ret |-> IF c = "orders"
                       THEN [i \in 1..Len(sel.data) |-> from_remote_order(sel.data[i])]
                       ELSE sel.data,
               raised |-> FALSE, rfail |-> FALSE]
         ELSE [ret |-> load_data_local(w.disk, c), raised |-> FALSE, rfail |-> TRUE]
    ELSE [ret |-> load_data_local(w.disk, c), raised |-> FALSE, rfail |-> FALSE]

\* the remote part of save_data for daily_totals: one update or insert per
\* item, stopping at the first exception; the k-th call fails transiently
RECURSIVE save_totals_remote(_, _, _, _)
save_totals_remote(r, data, i, k) ==
    IF i > Len(data) THEN [ok |-> TRUE, r |-> r]
    ELSE LET item == data[i]
             call == IF Has(item, "id")
                     THEN remote_update(r, "daily_totals", item.id, item, i = k)
                     ELSE remote_insert(r, "daily_totals", <<item>>, i = k)
         IN IF call.ok THEN save_totals_remote(call.r, data, i + 1, k)
            ELSE [ok |-> FALSE, r |-> r]

\* save_data: the remote write, then the local write whether or not the
\* remote write raised
save_data(w, c, data, k, clock) ==
    IF supabase
    THEN LET rem == IF c = "daily_totals" /\ data # <<>>
                    THEN save_totals_remote(w.remote, data, 1, k)
                    ELSE IF data # <<>>
                         THEN remote_insert(w.remote, c, data, k > 0)
                         ELSE [ok |-> TRUE, r |-> w.remote]
         IN [w |-> [remote |-> rem.r,
                    disk |-> save_data_local(w.disk, c, data, clock)],
             raised |-> FALSE, rfail |-> ~rem.ok, events |-> <<>>]
    ELSE [w |-> [w EXCEPT !.disk = save_data_local(w.disk, c, data, clock)],
          raised |-> FALSE, rfail |-> FALSE, events |-> <<>>]

\* add_document_local: load, append, save
add_document_local(d, c, doc, clock) ==
    save_data_local(d, c, Append(load_data_local(d, c), doc), clock)

\* add_document: insert remotely and announce it; on an exception of the
\* insert or of the emit, add to the local file
add_document(w, c, doc, failIns, failEmit, clock) ==
    IF supabase
    THEN LET row == IF c = "orders" THEN to_remote_order(doc) ELSE doc
             row1 == IF Has(row, "created_at") THEN row ELSE Put(row, "created_at", today)
             ins == remote_insert(w.remote, c, <<row1>>, failIns)
         IN IF ins.ok /\ ~failEmit
            THEN [w |-> [w EXCEPT !.remote = ins.r], raised |-> FALSE, rfail |-> FALSE,
                  events |-> <<Event("database_updated", "all",
                                     [table |-> c, action |-> "insert", data |-> doc])>>]
            ELSE [w |-> [remote |-> ins.r, disk |-> add_document_local(w.disk, c, doc, clock)],
                  raised |-> FALSE, rfail |-> ~ins.ok, events |-> <<>>]
    ELSE [w |-> [w EXCEPT !.disk = add_document_local(w.disk, c, doc, clock)],
          raised |-> FALSE, rfail |-> FALSE, events |-> <<>>]

\* update_document_local: update the first record with that id and save;
\* nothing is written when no record has the id
update_document_local(d, c, id, patch, clock) ==
    LET current_data == load_data_local(d, c)
        hit == {i \in 1..Len(current_data) :
                   Has(current_data[i], "id") /\ current_data[i].id = id}
    IN IF hit = {} THEN d
       ELSE LET first == CHOOSE i \in hit : \A j \in hit : i <= j IN
            save_data_local(d, c,
                [current_data EXCEPT ![first] = Update(current_data[first], patch)], clock)

\* update_document: update remotely and announce it; on an exception update
\* the local file
update_document(w, c, id, patch, failUpd, failEmit, clock) ==
    IF supabase
    THEN LET patch1 == Put(patch, "updated_at", today)
             upd == remote_update(w.remote, c, id, patch1, failUpd)
         IN IF upd.ok /\ ~failEmit
            THEN [w |-> [w EXCEPT !.remote = upd.r], raised |-> FALSE, rfail |-> FALSE,
                  events |-> <<Event("database_updated", "all",
                                     [table |-> c, action |-> "update", id |-> id,
                                      data |-> patch1])>>]
            ELSE [w |-> [remote |-> upd.r,
                         disk |-> update_document_local(w.disk, c, id, patch1, clock)],
                  raised |-> FALSE, rfail |-> ~upd.ok, events |-> <<>>]
    ELSE [w |-> [w EXCEPT !.disk = update_document_local(w.disk, c, id, patch, clock)],
          raised |-> FALSE, rfail |-> FALSE, events |-> <<>>]

(***************************************************************************)
(* File-store specification: save_data_local step by step, with the        *)
(* process killed at any point of a save, and load_data_local.             *)
(***************************************************************************)
\* record lists handed to save_data_local: up to MaxLen copies of one
\* record, and a list holding another record
FsLists == (UNION {[1..k -> {"r1"}] : k \in 0..MaxLen}) \cup {<<"r2">>}

\* the fallback menu of load_menu_items (its first two items)
MenuItem(id, name, price) ==
    [id |-> id, name |-> name, description |-> "", price |-> price,
     image |-> "/static/images/m.png", category |-> "Sri Lankan Specials",
     available |-> TRUE]

DefaultMenu ==
    <<MenuItem("sri-curry", "Traditional Sri Lankan Curry", 125000),
      MenuItem("kottu-roti", "Chicken Kottu Roti", 95000)>>

Idle == [pc |-> "idle", c |-> "orders", data |-> <<>>]

\* the two concurrent callers of the concurrency specifications
Threads == {1, 2}

IdleThread == [pc |-> "idle", call |-> [kind |-> "none"], local |-> <<>>]

NoReq == [kind |-> "none"]
NeverSaved == [exists |-> FALSE, list |-> <<>>]

InitCommon ==
    /\ disk = EmptyDisk
    /\ now = 0
    /\ inflight = Idle
    /\ saved = [c \in Collections |-> NeverSaved]
    /\ op = "init"
    /\ req = NoReq
    /\ resp = NoReq
    /\ published = <<>>
    /\ rfail = FALSE
    /\ today = 1
    /\ nextId = 0
    /\ remote = [c \in Collections |-> <<>>]
    /\ staff_alerts = <<>>
    /\ menu_items = DefaultMenu
    /\ menu_table = <<>>
    /\ threads = [t \in Threads |-> IdleThread]
    /\ storage_lock = 0

InitFS ==
    /\ InitCommon
    /\ supabase = FALSE
    /\ faults = FALSE

appVars == <<supabase, faults, remote, today, nextId, published, rfail, memVars, concVars>>

\* save_data_local enters dt seconds after the previous save began:
\* storage_lock taken, create_backup done.
FsBegin(c, L, dt) ==
    /\ inflight.pc = "idle"
    /\ disk.stamp <= MaxSaves
    /\ now + dt <= 1
    /\ now' = now + dt
    /\ disk' = create_backup(disk, c, now + dt)
    /\ inflight' = [pc |-> "backed_up", c |-> c, data |-> L]
    /\ op' = "save_begin"
    /\ req' = [c |-> c, data |-> L]
    /\ resp' = NoReq
    /\ UNCHANGED <<saved, appVars>>

\* the temporary file is opened for writing
FsOpenTmp ==
    /\ inflight.pc = "backed_up"
    /\ disk' = open_tmp(disk, inflight.c)
    /\ inflight' = [inflight EXCEPT !.pc = "writing"]
    /\ UNCHANGED <<now, saved, op, req, resp, appVars>>

\* json.dump writes one more token of the text
FsWriteTmp ==
    /\ inflight.pc = "writing"
    /\ LET text == json_dump(inflight.data)
           n == Len(disk.tmp[inflight.c].text)
       IN /\ n < Len(text)
          /\ disk' = write_tmp(disk, inflight.c, text, n + 1)
    /\ UNCHANGED <<now, inflight, saved, op, req, resp, appVars>>

\* the text is complete: os.replace, lock released, save_data_local returns
FsReplace ==
    /\ inflight.pc = "writing"
    /\ disk.tmp[inflight.c].text = json_dump(inflight.data)
    /\ disk' = os_replace(disk, inflight.c)
    /\ saved' = [saved EXCEPT ![inflight.c] = [exists |-> TRUE, list |-> inflight.data]]
    /\ inflight' = Idle
    /\ op' = "save"
    /\ UNCHANGED <<now, req, resp, appVars>>

\* load_data_local(c)
FsLoad(c) ==
    /\ inflight.pc = "idle"
    /\ resp' = load_data_local(disk, c)
    /\ op' = "load"
    /\ req' = [c |-> c]
    /\ UNCHANGED <<disk, now, inflight, saved, appVars>>

\* the process is killed during a save and restarted: memory is lost, the
\* data directory stays as it is
FsCrash ==
    /\ inflight.pc # "idle"
    /\ inflight' = Idle
    /\ op' = "crash"
    /\ req' = inflight
    /\ UNCHANGED <<disk, now, saved, resp, appVars>>

NextFS ==
    \/ \E c \in Collections, L \in FsLists, dt \in 0..1 : FsBegin(c, L, dt)
    \/ FsOpenTmp
    \/ FsWriteTmp
    \/ FsReplace
    \/ \E c \in Collections : FsLoad(c)
    \/ FsCrash

SpecFS == InitFS /\ [][NextFS]_vars

(***************************************************************************)
(* Backup-rotation specification: repeated save_data_local calls to one    *)
(* collection while the clock advances.                                    *)
(***************************************************************************)
RotList == <<"r1">>

\* one save_data_local("orders", L), dt seconds after the previous one
RotSave(dt) ==
    /\ disk.stamp <= RotSaves
    /\ now' = now + dt
    /\ disk' = save_data_local(disk, "orders", RotList, now + dt)
    /\ saved' = [saved EXCEPT !["orders"] = [exists |-> TRUE, list |-> RotList]]
    /\ op' = "save"
    /\ req' = [c |-> "orders", data |-> RotList]
    /\ UNCHANGED <<inflight, resp, appVars>>

NextRot == \E dt \in 0..1 : RotSave(dt)

SpecRot == InitFS /\ [][NextRot]_vars

\* C8: once a save has returned, at most 10 backup files of the collection
\* exist (after 15 saves exactly the 10 newest remain).
C8_AtMostKeepBackups ==
    \A c \in Collections : Cardinality(disk.backups[c]) <= KEEP

(***************************************************************************)
(* Properties of the file store.                                           *)
(***************************************************************************)
\* the list load_data_local has to return for c: that of the last save
\* that returned, [] when there was none
LastSavedList(c) == IF saved[c].exists THEN saved[c].list ELSE <<>>

\* the live file of c holds exactly what the last returned save wrote
LiveFileIntact(c) ==
    IF saved[c].exists
    THEN disk.files[c].exists /\ disk.files[c].text = json_dump(saved[c].list)
    ELSE ~disk.files[c].exists

TmpPhase(pc) == pc = "writing"

\* C9: when the process is killed between the start of the temporary-file
\* write and the rename, the live file still holds the content of the
\* previous successful save and load_data_local returns that list.
C9_CrashKeepsPreviousFile ==
    /\ TmpPhase(inflight.pc) =>
          /\ LiveFileIntact(inflight.c)
          /\ load_data_local(disk, inflight.c) = LastSavedList(inflight.c)
    /\ (op = "crash" /\ TmpPhase(req.pc)) =>
          /\ LiveFileIntact(req.c)
          /\ load_data_local(disk, req.c) = LastSavedList(req.c)

\* a save that replaces a non-empty saved list by a different one was killed
\* while its temporary file was partly written
C9_Witness ==
    /\ op = "crash"
    /\ TmpPhase(req.pc)
    /\ saved[req.c].exists
    /\ saved[req.c].list # <<>>
    /\ req.data # saved[req.c].list
    /\ disk.tmp[req.c].exists
    /\ disk.tmp[req.c].text # <<>>
    /\ disk.tmp[req.c].text # json_dump(req.data)

\* C10: after save_data_local(c, L) has returned, load_data_local(c) with no
\* later save to c returns L.
C10_SaveThenLoad ==
    /\ op = "save" => \A c \in Collections :
          saved[c].exists => load_data_local(disk, c) = saved[c].list
    /\ (op = "load" /\ saved[req.c].exists) => resp = saved[req.c].list

\* a load returned the non-empty list of a save that overwrote another list
C10_Witness ==
    /\ op = "load"
    /\ saved[req.c].exists
    /\ resp # <<>>
    /\ resp = saved[req.c].list
    /\ disk.backups[req.c] # {}

(***************************************************************************)
(* Records of the three collections.                                       *)
(***************************************************************************)
\* the order place_order builds
MakeOrder_received(id, customer, table, items, total, day) ==
    [id |-> id, customer_name |-> customer, table_number |-> table, items |-> items,
     total |-> total, date |-> day, status |-> "received"]

MakeOrder(id, customer, table, items, total, day) ==
    [id |-> id, customer_name |-> customer, table_number |-> table, items |-> items,
     total |-> total, date |-> day, status |-> "pending"]

\* the manual order add_manual_order builds
MakeManualOrder(id, customer, table, description, total, day) ==
    [id |-> id, customer_name |-> customer, table_number |-> table,
     items_description |-> description, total |-> total, notes |-> "",
     date |-> day, type |-> "manual"]

\* the zeroed record of a day
DefaultTotals(day) ==
    [date |-> day, digital_orders |-> 0, manual_orders |-> 0, digital_revenue |-> 0,
     manual_revenue |-> 0, total_orders |-> 0, total_revenue |-> 0]

ItemX(quantity) == [id |-> "x", name |-> "Curry", price |-> 100, quantity |-> quantity]

(***************************************************************************)
(* Daily totals aggregator.                                                *)
(***************************************************************************)
\* the search as it would be if it never found the record of the day
FindDate_never(daily_totals, day) == 0

\* index of the first record of the day in the list, 0 when there is none
FindDate(daily_totals, day) ==
    LET hit == {i \in 1..Len(daily_totals) :
                   Has(daily_totals[i], "date") /\ daily_totals[i].date = day}
    IN IF hit = {} THEN 0 ELSE CHOOSE i \in hit : \A j \in hit : i <= j

\* the counters of the order's type as they would be if the other type's
\* counters were bumped
count_order_swapped(t, amount, order_type) ==
    IF order_type = "digital"
    THEN [t EXCEPT !.manual_orders = @ + 1, !.manual_revenue = @ + amount]
    ELSE IF order_type = "manual"
    THEN [t EXCEPT !.digital_orders = @ + 1, !.digital_revenue = @ + amount]
    ELSE t

\* one more order of the given type
count_order(t, amount, order_type) ==
    IF order_type = "digital"
    THEN [t EXCEPT !.digital_orders = @ + 1, !.digital_revenue = @ + amount]
    ELSE IF order_type = "manual"
    THEN [t EXCEPT !.manual_orders = @ + 1, !.manual_revenue = @ + amount]
    ELSE t

\* the sums as they would be if only the digital counters were summed
recompute_totals_digital(t) ==
    [t EXCEPT !.total_orders = t.digital_orders,
              !.total_revenue = t.digital_revenue]

\* total_orders and total_revenue are the sums of the two types
recompute_totals(t) ==
    [t EXCEPT !.total_orders = t.digital_orders + t.manual_orders,
              !.total_revenue = t.digital_revenue + t.manual_revenue]

\* update_daily_totals: load the collection, find or create the record of
\* today, apply the order, save the collection
\* the part of update_daily_totals between its load and its save, as it
\* would be if the order were not counted
with_order_uncounted(loaded, amount, order_type) ==
    LET at == FindDate(loaded, today) IN
    IF at = 0 THEN Append(loaded, DefaultTotals(today)) ELSE loaded

\* the part of update_daily_totals between its load and its save: today's
\* record of the loaded list, created when missing, counts the order
with_order(loaded, amount, order_type) ==
    LET at == FindDate(loaded, today)
        daily_totals == IF at = 0 THEN Append(loaded, DefaultTotals(today)) ELSE loaded
        idx == IF at = 0 THEN Len(daily_totals) ELSE at
    IN [daily_totals EXCEPT ![idx] = recompute_totals(count_order(@, amount, order_type))]

update_daily_totals(w, amount, order_type, failLoad, k, clock) ==
    LET ld == load_data(w, "daily_totals", failLoad)
        updated == with_order(ld.ret, amount, order_type)
        sv == save_data(w, "daily_totals", updated, k, clock)
    IN [w |-> sv.w, raised |-> FALSE, rfail |-> ld.rfail \/ sv.rfail]

\* get_daily_totals: the record of today, created, saved and returned when
\* the loaded collection has none
get_daily_totals(w, failLoad, k, clock) ==
    LET ld == load_data(w, "daily_totals", failLoad)
        at == FindDate(ld.ret, today)
    IN IF at # 0
       THEN [w |-> w, ret |-> ld.ret[at], raised |-> FALSE, rfail |-> ld.rfail]
       ELSE LET sv == save_data(w, "daily_totals", Append(ld.ret, DefaultTotals(today)), k, clock)
            IN [w |-> sv.w, ret |-> DefaultTotals(today), raised |-> FALSE,
                rfail |-> ld.rfail \/ sv.rfail]

(***************************************************************************)
(* Repository specification: load_data, save_data and add_document called  *)
(* directly, in local mode and in remote mode, with the remote calls and   *)
(* the emit free to raise at every call in remote mode.                     *)
(***************************************************************************)
World == [remote |-> remote, disk |-> disk]

\* outcomes of one remote call or emit: FALSE = returns, TRUE = raises
Faults == IF supabase THEN BOOLEAN ELSE {FALSE}

\* which remote call of a save_data over n items raises: 0 = none
SaveFaults(n) == IF supabase THEN 0..n ELSE {0}

InitRepo ==
    /\ InitCommon
    /\ supabase \in BOOLEAN
    /\ faults = FALSE

RepoDoc(c, id) ==
    IF c = "orders" THEN MakeOrder(id, "Alice", "5", <<ItemX(2)>>, 200, today)
    ELSE IF c = "manual_orders" THEN MakeManualOrder(id, "Walk-in Customer", "Takeout", "tea", 50, today)
    ELSE DefaultTotals(today)

RepoLoad(c, fail) ==
    /\ LET res == load_data(World, c, fail) IN
          /\ resp' = [ret |-> res.ret, raised |-> res.raised]
          /\ rfail' = res.rfail
    /\ op' = "load_data"
    /\ req' = [c |-> c]
    /\ published' = <<>>
    /\ UNCHANGED <<disk, now, inflight, saved, memVars, concVars, supabase, faults, remote, today, nextId>>

RepoSave(c, data, k) ==
    /\ disk.stamp <= RepoWrites
    /\ LET res == save_data(World, c, data, k, now) IN
          /\ remote' = res.w.remote
          /\ disk' = res.w.disk
          /\ resp' = [ret |-> <<>>, raised |-> res.raised]
          /\ rfail' = res.rfail
    /\ op' = "save_data"
    /\ req' = [c |-> c, data |-> data]
    /\ published' = <<>>
    /\ UNCHANGED <<now, inflight, saved, memVars, concVars, supabase, faults, today, nextId>>

RepoAdd(c, failIns, failEmit) ==
    /\ disk.stamp <= RepoWrites
    /\ nextId < RepoWrites
    /\ LET doc == RepoDoc(c, nextId + 1)
           res == add_document(World, c, doc, failIns, failEmit, now)
       IN /\ remote' = res.w.remote
          /\ disk' = res.w.disk
          /\ resp' = [ret |-> <<>>, raised |-> res.raised]
          /\ rfail' = res.rfail
          /\ published' = res.events
          /\ req' = [c |-> c, doc |-> doc]
    /\ nextId' = nextId + 1
    /\ op' = "add_document"
    /\ UNCHANGED <<now, inflight, saved, memVars, concVars, supabase, faults, today>>

\* update_document('orders', id, {'status': 'ready'}) for the newest order
RepoUpdate(failUpd, failEmit) ==
    /\ disk.stamp <= RepoWrites
    /\ nextId > 0
    /\ LET res == update_document(World, "orders", nextId, [status |-> "ready"],
                                  failUpd, failEmit, now)
       IN /\ remote' = res.w.remote
          /\ disk' = res.w.disk
          /\ resp' = [ret |-> <<>>, raised |-> res.raised]
          /\ rfail' = res.rfail
          /\ published' = res.events
    /\ req' = [c |-> "orders", id |-> nextId, patch |-> [status |-> "ready"]]
    /\ op' = "update_document"
    /\ UNCHANGED <<now, inflight, saved, memVars, concVars, supabase, faults, today, nextId>>

NextRepo ==
    \/ \E c \in Collections, fail \in Faults : RepoLoad(c, fail)
    \/ \E c \in Collections, n \in 0..1 :
          LET data == IF n = 0 THEN <<>> ELSE <<RepoDoc(c, nextId)>> IN
          \E k \in SaveFaults(Len(data)) : RepoSave(c, data, k)
    \/ \E c \in Collections, failIns \in Faults, failEmit \in Faults :
          RepoAdd(c, failIns, failEmit)
    \/ \E failUpd \in Faults, failEmit \in Faults : RepoUpdate(failUpd, failEmit)

SpecRepo == InitRepo /\ [][NextRepo]_vars

\* C1: with a remote client configured, when the remote call raises inside
\* load_data, save_data or add_document, no exception reaches the caller
\* and the local file store serves the call: load_data returns what
\* load_data_local yields, save_data leaves the local file holding the data,
\* add_document appends the document to the local file.
C1_RemoteFailureServedLocally ==
    [][(supabase' /\ rfail') =>
         /\ ~resp'.raised
         /\ op' = "load_data" => resp'.ret = load_data_local(disk', req'.c)
         /\ op' = "save_data" =>
               /\ disk'.files[req'.c].exists
               /\ disk'.files[req'.c].text = json_dump(req'.data)
               /\ load_data_local(disk', req'.c) = req'.data
         /\ op' = "add_document" =>
               load_data_local(disk', req'.c)
                   = Append(load_data_local(disk, req'.c), req'.doc)]_vars

\* a load_data whose remote select raised returned records that an earlier
\* failed remote write had left in the local file
C1_Witness ==
    /\ supabase
    /\ rfail
    /\ op = "load_data"
    /\ ~resp.raised
    /\ resp.ret # <<>>
    /\ remote[req.c] = <<>>


(***************************************************************************)
(* Request handlers.  Each returns the world after the request, the HTTP   *)
(* status code, the response body, the socket events emitted and whether a *)
(* remote call raised on the way.                                          *)
(***************************************************************************)
Abs(x) == IF x < 0 THEN 0 - x ELSE x

RECURSIVE calculated_total(_)
calculated_total(items) ==
    IF items = <<>> THEN 0
    ELSE items[1].price * items[1].quantity + calculated_total(Tail(items))

\* the total comparison as it would be with a tolerance of a whole unit
total_mismatch_loose(items, total) == Abs(calculated_total(items) - total) > 100 * TOLERANCE

total_mismatch(items, total) == Abs(calculated_total(items) - total) > TOLERANCE

Reply(w, code, body, events, failed) ==
    [w |-> w, code |-> code, body |-> body, events |-> events, rfail |-> failed]

Error(w, code, message, events, failed) ==
    Reply(w, code, [status |-> "error", message |-> message], events, failed)

\* index of the first record with that id, 0 when there is none
FindId(records, id) ==
    LET hit == {i \in 1..Len(records) : Has(records[i], "id") /\ records[i].id = id}
    IN IF hit = {} THEN 0 ELSE CHOOSE i \in hit : \A j \in hit : i <= j

\* f: which of the remote calls and emits of the request raise
place_order(w, rq, id, f, clock) ==
    IF rq.customer_name = "" THEN Error(w, 400, "Customer name is required", <<>>, FALSE)
    ELSE IF rq.table_number = "" THEN Error(w, 400, "Table number is required", <<>>, FALSE)
    ELSE IF rq.items = <<>> THEN Error(w, 400, "Order items are required", <<>>, FALSE)
    ELSE IF rq.total <= 0 THEN Error(w, 400, "Valid total amount is required", <<>>, FALSE)
    ELSE IF \E i \in 1..Len(rq.items) : rq.items[i].quantity <= 0 \/ rq.items[i].price <= 0
    THEN Error(w, 400, "Invalid item quantity or price", <<>>, FALSE)
    ELSE IF total_mismatch(rq.items, rq.total)
    THEN Error(w, 400, "Order total mismatch", <<>>, FALSE)
    ELSE LET order == MakeOrder(id, rq.customer_name, rq.table_number, rq.items,
                                rq.total, today)
             add == add_document(w, "orders", order, f.ins, f.emitDb, clock)
             tot == update_daily_totals(add.w, rq.total, "digital", f.load, f.k, clock)
             new_order == IF f.emit THEN <<>> ELSE <<Event("new_order", "staff", order)>>
         IN Reply(tot.w, 200, [status |-> "success", order_id |-> id],
                  add.events \o new_order, add.rfail \/ tot.rfail)

get_orders(w, fail) ==
    LET ld == load_data(w, "orders", fail)
    IN Reply(w, 200, ld.ret, <<>>, ld.rfail)

\* the event of update_order_status as it would be if sent to the staff room
order_status_updated_staff(order_id, new_status) ==
    Event("order_status_updated", "staff", [order_id |-> order_id, status |-> new_status])

\* socketio.emit without a room: every connected client receives it
order_status_updated(order_id, new_status) ==
    Event("order_status_updated", "all", [order_id |-> order_id, status |-> new_status])

order_update(order_id, new_status) ==
    Event("order_update", "staff", [order_id |-> order_id, status |-> new_status])

update_order_status(w, order_id, new_status, f, clock) ==
    IF order_id = 0 \/ new_status = ""
    THEN Error(w, 400, "Order ID and status are required", <<>>, FALSE)
    ELSE LET ld == load_data(w, "orders", f.load) IN
         IF FindId(ld.ret, order_id) = 0
         THEN Error(w, 404, "Order not found", <<>>, ld.rfail)
         ELSE LET upd == update_document(w, "orders", order_id, [status |-> new_status],
                                         f.upd, f.emitDb, clock)
              IN IF f.emit
                 THEN Error(upd.w, 500, "emit", upd.events, ld.rfail \/ upd.rfail)
                 ELSE Reply(upd.w, 200, [status |-> "success"],
                            Append(upd.events, order_status_updated(order_id, new_status)),
                            ld.rfail \/ upd.rfail)

update_order_status_new(w, order_id, new_status, f, clock) ==
    IF new_status = "" THEN Error(w, 400, "Status is required", <<>>, FALSE)
    ELSE LET ld == load_data(w, "orders", f.load)
             at == FindId(ld.ret, order_id)
         IN IF at = 0
            THEN Error(w, 404, "Order not found", <<>>, ld.rfail)
            ELSE LET orders == [ld.ret EXCEPT ![at] =
                                   Update(@, [status |-> new_status, updated_at |-> today])]
                     upd == update_document(w, "orders", order_id, [status |-> new_status],
                                            f.upd, f.emitDb, clock)
                     sv == save_data(upd.w, "orders", orders, f.k, clock)
                     failed == ld.rfail \/ upd.rfail \/ sv.rfail
                 IN IF f.emit
                    THEN Error(sv.w, 500, "emit", upd.events, failed)
                    ELSE Reply(sv.w, 200, [status |-> "success"],
                               Append(upd.events, order_update(order_id, new_status)),
                               failed)

add_manual_order(w, rq, id, f, clock) ==
    IF rq.items_description = "" \/ rq.total <= 0
    THEN Error(w, 400, "Items description and total amount are required", <<>>, FALSE)
    ELSE LET manual_order == MakeManualOrder(id, rq.customer_name, rq.table_number,
                                             rq.items_description, rq.total, today)
             add == add_document(w, "manual_orders", manual_order, f.ins, f.emitDb, clock)
             tot == update_daily_totals(add.w, rq.total, "manual", f.load, f.k, clock)
         IN Reply(tot.w, 200, [status |-> "success", order_id |-> id],
                  add.events, add.rfail \/ tot.rfail)

get_daily_totals_api(w, fail, k, clock) ==
    LET res == get_daily_totals(w, fail, k, clock)
    IN Reply(res.w, 200, res.ret, <<>>, res.rfail)

(***************************************************************************)
(* Handler specification: customers place orders, staff read the order     *)
(* list, move orders through their statuses, add manual orders and read    *)
(* the totals of the day, while the days go by.                            *)
(***************************************************************************)
\* request bodies of place_order: items worth 200 with a declared total
PlaceTotals == {200, 201, 202}

PlaceReq(total) ==
    [customer_name |-> "Alice", table_number |-> "5", items |-> <<ItemX(2)>>,
     total |-> total]

ManualReq ==
    [customer_name |-> "Walk-in Customer", table_number |-> "Takeout",
     items_description |-> "tea", total |-> 50]

\* target statuses sent by the staff pages and by test_order_status_updates
StatusInputs == {"ready", "completed"}

\* the remote service is configured and unreachable
Down == supabase /\ faults

\* what raises during one request: every remote call while the service is
\* unreachable, and the emits as chosen
Raises(emitDb, emit) ==
    [ins |-> Down, upd |-> Down, load |-> Down, k |-> IF Down THEN 1 ELSE 0,
     emitDb |-> emitDb, emit |-> emit]

\* outcomes of the emit inside add_document and update_document, reached
\* only after a remote write that returned
DbEmitFaults == IF supabase /\ ~faults THEN BOOLEAN ELSE {FALSE}

Init ==
    /\ InitCommon
    /\ supabase \in BOOLEAN
    /\ faults = FALSE

InitSteady ==
    /\ InitCommon
    /\ supabase \in BOOLEAN
    /\ faults \in (IF supabase THEN BOOLEAN ELSE {FALSE})

\* the common part of a handler step
Serve(name, rq, res) ==
    /\ op' = name
    /\ req' = rq
    /\ resp' = [code |-> res.code, body |-> res.body]
    /\ published' = res.events
    /\ rfail' = res.rfail
    /\ remote' = res.w.remote
    /\ disk' = res.w.disk
    /\ UNCHANGED <<now, inflight, saved, memVars, concVars, supabase, faults, today>>

PlaceOrder(total, f) ==
    /\ nextId < MaxOrders
    /\ disk.stamp <= MaxWrites
    /\ LET rq == PlaceReq(total)
           res == place_order(World, rq, nextId + 1, f, now)
       IN /\ Serve("place_order", rq, res)
          /\ nextId' = IF res.code = 200 THEN nextId + 1 ELSE nextId

GetOrders(fail) ==
    /\ Serve("get_orders", NoReq, get_orders(World, fail))
    /\ UNCHANGED nextId

UpdateOrderStatus(order_id, new_status, f) ==
    /\ disk.stamp <= MaxWrites
    /\ Serve("update_order_status", [order_id |-> order_id, status |-> new_status],
             update_order_status(World, order_id, new_status, f, now))
    /\ UNCHANGED nextId

UpdateOrderStatusNew(order_id, new_status, f) ==
    /\ disk.stamp <= MaxWrites
    /\ Serve("update_order_status_new", [order_id |-> order_id, status |-> new_status],
             update_order_status_new(World, order_id, new_status, f, now))
    /\ UNCHANGED nextId

AddManualOrder(f) ==
    /\ nextId < MaxOrders
    /\ disk.stamp <= MaxWrites
    /\ Serve("add_manual_order", ManualReq,
             add_manual_order(World, ManualReq, nextId + 1, f, now))
    /\ nextId' = nextId + 1

GetDailyTotals(fail, k) ==
    /\ disk.stamp <= MaxWrites
    /\ Serve("get_daily_totals", NoReq, get_daily_totals_api(World, fail, k, now))
    /\ UNCHANGED nextId

\* midnight: datetime.now() moves to the next date
NextDay ==
    /\ today < MaxDay
    /\ today' = today + 1
    /\ op' = "next_day"
    /\ req' = NoReq
    /\ resp' = NoReq
    /\ published' = <<>>
    /\ rfail' = FALSE
    /\ UNCHANGED <<disk, now, inflight, saved, memVars, concVars, supabase, faults, remote, nextId>>

\* the remote service becomes unreachable, or reachable again
Outage ==
    /\ supabase
    /\ faults' = ~faults
    /\ UNCHANGED <<disk, now, inflight, saved, memVars, concVars, supabase, remote, today, nextId, op, req,
                   resp, published, rfail>>

Next ==
    \/ \E total \in PlaceTotals, emitDb \in DbEmitFaults, emit \in BOOLEAN :
          PlaceOrder(total, Raises(emitDb, emit))
    \/ GetOrders(Down)
    \/ \E id \in 1..MaxOrders, s \in StatusInputs, emitDb \in DbEmitFaults, emit \in BOOLEAN :
          UpdateOrderStatus(id, s, Raises(emitDb, emit))
    \/ \E id \in 1..MaxOrders, s \in StatusInputs, emitDb \in DbEmitFaults, emit \in BOOLEAN :
          UpdateOrderStatusNew(id, s, Raises(emitDb, emit))
    \/ Outage

Spec == Init /\ [][Next]_vars

\* the totals of the day, with the remote service staying as it was at
\* start: absent, reachable or unreachable
NextTotals ==
    \/ \E total \in PlaceTotals, emitDb \in DbEmitFaults, emit \in BOOLEAN :
          PlaceOrder(total, Raises(emitDb, emit))
    \/ AddManualOrder(Raises(FALSE, FALSE))
    \/ GetDailyTotals(Down, IF Down THEN 1 ELSE 0)
    \/ NextDay

SpecTotals == InitSteady /\ [][NextTotals]_vars

(***************************************************************************)
(* Properties of the handlers.                                             *)
(***************************************************************************)
StatusHandlers == {"update_order_status", "update_order_status_new"}

\* the order list of a response holds the order with that status and total
Listed(body, id, status) ==
    \E i \in 1..Len(body) : body[i].id = id /\ body[i].status = status

\* C2: after place_order answers with success and an order_id, the next
\* get_orders lists an order with that id, status "pending" and the total
\* of the request, whether the remote service is absent, reachable, or
\* raises on the write of place_order or on the read of get_orders.
C2_PlacedOrderListed ==
    [][(op = "place_order" /\ resp.code = 200 /\ op' = "get_orders") =>
         \E i \in 1..Len(resp'.body) :
            /\ resp'.body[i].id = resp.body.order_id
            /\ resp'.body[i].status = "pending"
            /\ resp'.body[i].total = req.total]_vars

\* C3: a place_order request whose declared total differs from the sum of
\* price*quantity of its items by more than 0.01 is answered with 400 and
\* changes nothing: no store is written, no identifier is used and no event
\* is published.
C3_MismatchRejected ==
    [][(op' = "place_order" /\ faults' = faults
        /\ Abs(calculated_total(req'.items) - req'.total) > TOLERANCE) =>
         /\ resp'.code = 400
         /\ remote' = remote
         /\ disk' = disk
         /\ nextId' = nextId
         /\ published' = <<>>]_vars

C3_Witness ==
    /\ op = "place_order"
    /\ req.total = 202
    /\ resp.code = 400
    /\ resp.body.message = "Order total mismatch"
    /\ nextId = 1
    /\ published = <<>>

\* C4: after a status update of either handler for an existing order and a
\* target status s answers with success, the next get_orders shows that
\* order with status s, in local-only mode and in remote mode, the remote
\* update raising included.
C4_UpdatedStatusListed ==
    [][(op \in StatusHandlers /\ resp.code = 200 /\ op' = "get_orders") =>
         Listed(resp'.body, req.order_id, req.status)]_vars

\* the events of the last request that carry {order_id, status}
StatusEvents ==
    SelectSeq(published,
              LAMBDA e : e.payload = [order_id |-> req.order_id, status |-> req.status])

\* C5 as stated: every successful status update of either handler publishes
\* exactly one notification carrying {order_id, status}, and its target is
\* the "staff" group.
C5_OneStaffNotification ==
    (op \in StatusHandlers /\ resp.code = 200) =>
        /\ Len(StatusEvents) = 1
        /\ StatusEvents[1].to = "staff"

\* C5: every successful status update publishes exactly one notification
\* carrying {order_id, status}: update_order_status_new sends it as
\* order_update to the "staff" group, update_order_status sends it as
\* order_status_updated to every connected client.
C5_OneStatusNotification ==
    (op \in StatusHandlers /\ resp.code = 200) =>
        /\ Len(StatusEvents) = 1
        /\ op = "update_order_status_new" =>
              StatusEvents[1].name = "order_update" /\ StatusEvents[1].to = "staff"
        /\ op = "update_order_status" =>
              StatusEvents[1].name = "order_status_updated" /\ StatusEvents[1].to = "all"

C5_Witness ==
    /\ op = "update_order_status"
    /\ resp.code = 200
    /\ supabase
    /\ Len(published) = 2
    /\ published[2].to = "all"

\* what get_daily_totals returns for the current day
TodayTotals == get_daily_totals(World, Down, IF Down THEN 1 ELSE 0, now).ret

KindOf(name) == IF name = "place_order" THEN "digital" ELSE "manual"

Items ==
    {[id |-> i, name |-> IF i = "x" THEN "Curry" ELSE "Tea", price |-> p, quantity |-> q] :
        i \in {"x", "y"}, p \in {100, 250}, q \in 1..3}

\* the valid item lists: non-empty, every item with id, name, price, quantity
ItemLists == UNION {[1..n -> Items] : n \in 1..MaxItems}

InitItems ==
    /\ InitCommon
    /\ supabase = TRUE
    /\ faults = FALSE

\* add_document('orders', order) on an empty table, then load_data('orders')
WriteThenRead(L) ==
    LET empty == [remote |-> [c \in Collections |-> <<>>], disk |-> disk]
        order == MakeOrder(1, "Alice", "5", L, calculated_total(L), today)
        add == add_document(empty, "orders", order, FALSE, FALSE, now)
        ld == load_data(add.w, "orders", FALSE)
    IN /\ op = "init"
       /\ remote' = add.w.remote
       /\ disk' = add.w.disk
       /\ op' = "write_then_read"
       /\ req' = order
       /\ resp' = [code |-> 200, body |-> ld.ret]
       /\ published' = add.events
       /\ rfail' = add.rfail \/ ld.rfail
       /\ UNCHANGED <<now, inflight, saved, memVars, concVars, supabase, faults, today, nextId>>

NextItems == \E L \in ItemLists : WriteThenRead(L)

SpecItems == InitItems /\ [][NextItems]_vars

\* C11: the translation of an item list to the remote format and back is
\* symmetric: the order read back from the remote store has exactly the
\* items it was written with, and the stored form parses back to them.
C11_ItemsRoundTrip ==
    op = "write_then_read" =>
        /\ ~rfail
        /\ Len(resp.body) = 1
        /\ resp.body[1].items = req.items
        /\ Len(remote.orders) = 1
        /\ json_loads(remote.orders[1].items) = [ok |-> TRUE, val |-> req.items]

C11_Witness ==
    /\ op = "write_then_read"
    /\ Len(req.items) = 2
    /\ req.items[1].id # req.items[2].id
    /\ Len(resp.body) = 1
    /\ resp.body[1].items = req.items
    /\ remote.orders[1].items # req.items

(***************************************************************************)
(* Clearing the orders.                                                    *)
(***************************************************************************)
\* table('orders').delete().eq('id', id).execute() for each selected id, one
\* call after the other; the k-th call raises
RECURSIVE remote_delete_each(_, _, _, _)
remote_delete_each(r, ids, i, k) ==
    IF i > Len(ids) THEN [ok |-> TRUE, r |-> r]
    ELSE IF i = k THEN [ok |-> FALSE, r |-> r]
    ELSE remote_delete_each(
             [r EXCEPT !.orders = SelectSeq(@, LAMBDA row : row.id # ids[i])],
             ids, i + 1, k)

\* the reset as it would be if the sums were left as they were
reset_totals_counters(t) ==
    Update(t, [digital_orders |-> 0, manual_orders |-> 0, digital_revenue |-> 0,
               manual_revenue |-> 0])

\* totals.update({...}): the six counters of the day back to zero
reset_totals(t) ==
    Update(t, [digital_orders |-> 0, manual_orders |-> 0, digital_revenue |-> 0,
               manual_revenue |-> 0, total_orders |-> 0, total_revenue |-> 0])

\* f.sel, f.del: the select of the ids raises, the f.del-th delete raises;
\* f.load, f.k: the load and the save of the totals.  save_data('orders', [])
\* makes no remote call
clear_all_orders(w, f, clock) ==
    LET ids == [i \in 1..Len(w.remote.orders) |-> w.remote.orders[i].id]
        del == IF supabase /\ ~f.sel
               THEN remote_delete_each(w.remote, ids, 1, f.del)
               ELSE [ok |-> ~supabase, r |-> w.remote]
        w1 == [w EXCEPT !.remote = del.r]
        sv == save_data(w1, "orders", <<>>, 0, clock)
        ld == load_data(sv.w, "daily_totals", f.load)
        at == FindDate(ld.ret, today)
        daily_totals == IF at = 0 THEN ld.ret
                        ELSE [ld.ret EXCEPT ![at] = reset_totals(@)]
        st == save_data(sv.w, "daily_totals", daily_totals, f.k, clock)
    IN Reply(st.w, 200, [status |-> "success", message |-> "All orders cleared successfully"],
             <<>>, ~del.ok \/ sv.rfail \/ ld.rfail \/ st.rfail)

(***************************************************************************)
(* Ledger specification: the daily totals under get_daily_totals,          *)
(* update_daily_totals with any order type and clear_all_orders, every     *)
(* remote call free to raise, while the days go by.                        *)
(***************************************************************************)
OrderTypes == {"digital", "manual", "refund"}

LedgerUpdate(amount, order_type, failLoad, k) ==
    /\ disk.stamp <= MaxWrites
    /\ LET res == update_daily_totals(World, amount, order_type, failLoad, k, now)
       IN Serve("update_daily_totals", [amount |-> amount, order_type |-> order_type],
                Reply(res.w, 200, <<>>, <<>>, res.rfail))
    /\ UNCHANGED nextId

LedgerGet(failLoad, k) ==
    /\ disk.stamp <= MaxWrites
    /\ Serve("get_daily_totals", NoReq, get_daily_totals_api(World, failLoad, k, now))
    /\ UNCHANGED nextId

ClearAllOrders(f) ==
    /\ disk.stamp <= MaxWrites
    /\ Serve("clear_all_orders", NoReq, clear_all_orders(World, f, now))
    /\ UNCHANGED nextId

NextLedger ==
    \/ \E order_type \in OrderTypes, failLoad \in Faults, k \in SaveFaults(MaxDay) :
          LedgerUpdate(50, order_type, failLoad, k)
    \/ \E failLoad \in Faults, k \in SaveFaults(MaxDay) : LedgerGet(failLoad, k)
    \/ \E failSel \in Faults, failLoad \in Faults, k \in SaveFaults(MaxDay) :
          ClearAllOrders([sel |-> failSel, del |-> 0, load |-> failLoad, k |-> k])
    \/ NextDay

SpecLedger == InitRepo /\ [][NextLedger]_vars

\* the daily-totals records of the two stores
RemoteTotals == remote.daily_totals
LocalTotals == load_data_local(disk, "daily_totals")

OnePerDate(records) ==
    \A i, j \in 1..Len(records) : records[i].date = records[j].date => i = j

\* C12: at most one daily-totals record exists per calendar date in the
\* remote table and in the local file, after any sequence of
\* get_daily_totals, update_daily_totals and clear_all_orders, remote calls
\* failing at will.
C12_OneRecordPerDate == OnePerDate(RemoteTotals) /\ OnePerDate(LocalTotals)

C12_Witness ==
    /\ supabase
    /\ rfail
    /\ Len(RemoteTotals) = 2
    /\ Len(LocalTotals) = 2
    /\ op = "update_daily_totals"

SumsHold(t) ==
    /\ t.total_orders = t.digital_orders + t.manual_orders
    /\ t.total_revenue = t.digital_revenue + t.manual_revenue

\* C19: every daily-totals record of the remote table and of the local file
\* has total_orders = digital_orders + manual_orders and total_revenue =
\* digital_revenue + manual_revenue, after any sequence of get_daily_totals,
\* update_daily_totals with any order type and clear_all_orders.
C19_TotalsAreSums ==
    /\ \A i \in 1..Len(RemoteTotals) : SumsHold(RemoteTotals[i])
    /\ \A i \in 1..Len(LocalTotals) : SumsHold(LocalTotals[i])

C19_Witness ==
    /\ op = "clear_all_orders"
    /\ today = 2
    /\ Len(LocalTotals) = 2
    /\ \E i, j \in 1..2 :
          /\ LocalTotals[i].date = 1 /\ LocalTotals[i].total_orders = 1
          /\ LocalTotals[j].date = 2 /\ LocalTotals[j].total_orders = 0
             /\ LocalTotals[j].digital_orders = 0

Range(f) == {f[i] : i \in DOMAIN f}

\* C13: in remote mode, after every remote write of save_data, add_document
\* or update_document that succeeded, the same write is in the local file:
\* the saved list, the added document, the updated field.
C13_RemoteWriteMirrored ==
    [][(supabase' /\ ~rfail' /\ remote' # remote) =>
         LET local == load_data_local(disk', req'.c) IN
         /\ op' = "save_data" => local = req'.data
         /\ op' = "add_document" => req'.doc \in Range(local)
         /\ op' = "update_document" =>
               \E i \in 1..Len(local) :
                  /\ local[i].id = req'.id
                  /\ local[i].status = req'.patch.status]_vars

(***************************************************************************)
(* Damaged-file specification: save_data_local and load_data_local with    *)
(* the live file of a collection damaged from outside between them.        *)
(***************************************************************************)
DamageKinds == {"truncated", "malformed", "encoding"}

\* the text of a damaged file: cut short, with a stray comma in front, or
\* with an invalid byte in it
Damage(text, kind) ==
    IF kind = "truncated" THEN SubSeq(text, 1, Len(text) - 1)
    ELSE IF kind = "malformed" THEN <<COMMA>> \o text
    ELSE Append(text, BADBYTE)

DmgSave(c, L, dt) ==
    /\ disk.stamp <= MaxSaves
    /\ now + dt <= 1
    /\ now' = now + dt
    /\ disk' = save_data_local(disk, c, L, now')
    /\ op' = "save"
    /\ req' = [c |-> c, data |-> L]
    /\ resp' = NoReq
    /\ UNCHANGED <<inflight, saved, appVars>>

DmgDamage(c, kind) ==
    /\ disk.files[c].exists
    /\ Decodes(disk.files[c].text)
    /\ json_loads(disk.files[c].text).ok
    /\ disk' = [disk EXCEPT !.files[c].text = Damage(@, kind)]
    /\ op' = "damage"
    /\ req' = [c |-> c, kind |-> kind]
    /\ resp' = NoReq
    /\ UNCHANGED <<now, inflight, saved, appVars>>

DmgLoad(c) ==
    /\ op' = "load"
    /\ req' = [c |-> c]
    /\ resp' = [ret |-> load_data_local(disk, c), raised |-> FALSE]
    /\ UNCHANGED <<disk, now, inflight, saved, appVars>>

NextDamage ==
    \/ \E c \in Collections, L \in FsLists, dt \in 0..1 : DmgSave(c, L, dt)
    \/ \E c \in Collections, kind \in DamageKinds : DmgDamage(c, kind)
    \/ \E c \in Collections : DmgLoad(c)

SpecDamage == InitFS /\ [][NextDamage]_vars

\* the file does not read as a JSON list
Damaged(f) == f.exists /\ f.text # <<>> /\ ~(Decodes(f.text) /\ json_loads(f.text).ok)

\* the content of the most recent backup, [] when there is none or it is
\* itself unreadable
NewestBackupContent(c) ==
    IF disk.backups[c] = {} THEN <<>>
    ELSE LET text == SortByMtimeDesc(disk.backups[c])[1].text
         IN IF Decodes(text) /\ json_loads(text).ok THEN json_loads(text).val ELSE <<>>

\* C14: when load_data_local finds the collection file malformed, truncated
\* or in an invalid encoding, it returns the content of the most recent
\* backup of the collection if there is one and [] otherwise, and does not
\* raise.
C14_DamagedFileRecovered ==
    (op = "load" /\ Damaged(disk.files[req.c])) =>
        /\ ~resp.raised
        /\ resp.ret = NewestBackupContent(req.c)

\* ---------------------------------------------------------------------
\* Floor handlers: staff alerts, menu edits and table cleaning.  They work
\* on the lists the process keeps in memory.

Mem == [staff_alerts |-> staff_alerts, menu_items |-> menu_items,
        menu_table |-> menu_table]

\* the table names of the model that str.isdigit accepts
IsDigit(t) == t \in {"5", "7"}

\* the table names of the model that start with VIP
StartsWithVIP(t) == t \in {"VIP1"}

\* dict.get(k): None when the key is missing
Get(r, k) == IF Has(r, k) THEN r[k] ELSE "None"

\* str.strip on the names of the model
Strip(s) == IF s = " Rice " THEN "Rice" ELSE s

\* float(text), in cents, on the price texts of the model
Float(s) ==
    CASE s = "1300.00" -> [ok |-> TRUE, val |-> 130000]
      [] OTHER -> [ok |-> FALSE, val |-> 0]

FloorReply(w, m, code, body, events) ==
    [w |-> w, m |-> m, code |-> code, body |-> body, events |-> events,
     rfail |-> FALSE]

FloorError(w, m, code, message, events) ==
    FloorReply(w, m, code, [status |-> "error", message |-> message], events)

call_staff(w, m, rq, id, failEmit, clock) ==
    IF rq.table_number = "" \/ rq.customer_name = ""
    THEN FloorError(w, m, 400, "Table number and customer name are required", <<>>)
    ELSE IF ~(IsDigit(rq.table_number) \/ StartsWithVIP(rq.table_number))
    THEN FloorError(w, m, 400, "Invalid table number format", <<>>)
    ELSE LET alert == [id |-> id, table_number |-> rq.table_number,
                       customer_name |-> rq.customer_name, timestamp |-> clock,
                       type |-> "call_staff"]
             m2 == [m EXCEPT !.staff_alerts = Append(@, alert)]
         IN FloorReply(w, m2, 200,
                       [status |-> "success", message |-> "Staff has been notified!"],
                       IF failEmit THEN <<>> ELSE <<Event("new_alert", "staff", alert)>>)

dismiss_alert_keeping(w, m, alert_id) ==
    IF alert_id = 0 THEN FloorError(w, m, 400, "Alert ID is required", <<>>)
    ELSE FloorReply(w, m, 200, [status |-> "success"], <<>>)

dismiss_alert(w, m, alert_id) ==
    IF alert_id = 0 THEN FloorError(w, m, 400, "Alert ID is required", <<>>)
    ELSE FloorReply(w,
                    [m EXCEPT !.staff_alerts = SelectSeq(@, LAMBDA a : a.id # alert_id)],
                    200, [status |-> "success"], <<>>)

get_alerts(w, m) == FloorReply(w, m, 200, m.staff_alerts, <<>>)

clear_table_alerts(w, m, table_number) ==
    FloorReply(w,
               [m EXCEPT !.staff_alerts =
                   SelectSeq(@, LAMBDA a : ~(Get(a, "table") = table_number))],
               200, [success |-> TRUE], <<>>)

clean_table(w, m, table_id, f, clock) ==
    LET ld == load_data(w, "orders", f.load)
        kept == SelectSeq(ld.ret, LAMBDA o : Get(o, "table_number") # table_id)
        sv == IF ld.ret # <<>> THEN save_data(w, "orders", kept, f.k, clock)
              ELSE [w |-> w, rfail |-> FALSE]
        m2 == [m EXCEPT !.staff_alerts =
                  SelectSeq(@, LAMBDA a : Get(a, "table") # table_id)]
        res == IF f.emit
               THEN FloorError(sv.w, m2, 500, "emit", <<>>)
               ELSE FloorReply(sv.w, m2, 200,
                               [status |-> "success", message |-> table_id],
                               <<Event("table_update", "staff",
                                       [table_id |-> table_id, status |-> "cleaned"])>>)
    IN [res EXCEPT !.rfail = ld.rfail \/ sv.rfail]

\* list.pop(i)
pop(list, i) == SubSeq(list, 1, i - 1) \o SubSeq(list, i + 1, Len(list))

resolve_alert(w, m, alert_id, failEmit) ==
    LET at == FindId(m.staff_alerts, alert_id) IN
    IF at = 0 THEN FloorError(w, m, 404, "Alert not found", <<>>)
    ELSE LET m2 == [m EXCEPT !.staff_alerts = pop(@, at)] IN
         IF failEmit THEN FloorError(w, m2, 500, "emit", <<>>)
         ELSE FloorReply(w, m2, 200, [status |-> "success"],
                         <<Event("alert_resolved", "staff", [alert_id |-> alert_id])>>)

respond_to_alert(w, m, alert_id, response_text, failEmit, clock) ==
    IF response_text = "" THEN FloorError(w, m, 400, "Response text is required", <<>>)
    ELSE LET at == FindId(m.staff_alerts, alert_id) IN
         IF at = 0 THEN FloorError(w, m, 404, "Alert not found", <<>>)
         ELSE IF failEmit THEN FloorError(w, m, 500, "emit", <<>>)
         ELSE FloorReply(w, m, 200, [status |-> "success"],
                         <<Event("staff_response",
                                 "table_" \o Get(m.staff_alerts[at], "table"),
                                 [message |-> response_text, timestamp |-> clock])>>)

update_item_availability(w, m, item_id, rq, failEmit) ==
    IF ~Has(rq, "available")
    THEN FloorError(w, m, 400, "Available status is required", <<>>)
    ELSE LET at == FindId(m.menu_items, item_id) IN
         IF at = 0 THEN FloorError(w, m, 404, "Item not found", <<>>)
         ELSE LET m2 == [m EXCEPT !.menu_items[at] =
                                   Update(@, [available |-> rq.available])] IN
              IF failEmit THEN FloorError(w, m2, 500, "emit", <<>>)
              ELSE FloorReply(w, m2, 200, [status |-> "success"],
                              <<Event("menu_updated", "all", m2.menu_items[at])>>)

\* the rows of the remote menu table with that id take the item's fields
remote_menu_update(table, item) ==
    [i \in DOMAIN table |-> IF table[i].id = item.id THEN Update(table[i], item)
                            ELSE table[i]]

update_menu_item(w, m, item_id, data, failUpd, failEmit) ==
    LET at == FindId(m.menu_items, item_id) IN
    IF at = 0 THEN FloorError(w, m, 404, "Item not found", <<>>)
    ELSE LET named == IF Has(data, "name")
                      THEN [m EXCEPT !.menu_items[at].name = Strip(data.name)]
                      ELSE m
         IN IF Has(data, "price") /\ ~Float(data.price).ok
            THEN FloorError(w, named, 400, "Invalid price format", <<>>)
            ELSE LET priced == IF Has(data, "price")
                               THEN [named EXCEPT !.menu_items[at].price =
                                        Float(data.price).val]
                               ELSE named
                     item == priced.menu_items[at]
                     m2 == IF supabase /\ ~failUpd
                           THEN [priced EXCEPT !.menu_table = remote_menu_update(@, item)]
                           ELSE priced
                 IN IF failEmit THEN FloorError(w, m2, 500, "emit", <<>>)
                    ELSE FloorReply(w, m2, 200,
                                    [status |-> "success", item |-> item],
                                    <<Event("menu_item_updated", "all", item)>>)

\* upsert of one row into the remote menu_items table
remote_menu_upsert(table, row) ==
    IF \E i \in DOMAIN table : table[i].id = row.id
    THEN [i \in DOMAIN table |-> IF table[i].id = row.id THEN row ELSE table[i]]
    ELSE Append(table, row)

\* get_menu_items_from_supabase: the rows, None without a client or when
\* the select raises
get_menu_items_from_supabase(table, fail) ==
    IF ~supabase \/ fail THEN <<>> ELSE table

\* load_menu_items: the remote rows in the application's format when there
\* are any, the fallback list otherwise
load_menu_items(table, fail) ==
    LET supabase_menu == get_menu_items_from_supabase(table, fail) IN
    IF supabase_menu # <<>>
    THEN [i \in DOMAIN supabase_menu |->
             [id |-> supabase_menu[i].id, name |-> supabase_menu[i].name,
              description |-> supabase_menu[i].description,
              price |-> supabase_menu[i].price, image |-> "/static/images/m.png",
              category |-> supabase_menu[i].category,
              available |-> supabase_menu[i].available]]
    ELSE DefaultMenu

get_menu(w, m, fail) ==
    FloorReply(w, m, 200, load_menu_items(m.menu_table, fail), <<>>)

add_menu_item(w, m, rq, id, failUpsert, failEmit) ==
    IF rq.name = "" \/ rq.price = ""
    THEN FloorError(w, m, 400, "Name and price are required", <<>>)
    ELSE IF ~Float(rq.price).ok
    THEN FloorError(w, m, 400, "Invalid price format", <<>>)
    ELSE LET menu_item == [id |-> id, name |-> rq.name, description |-> "",
                           price |-> Float(rq.price).val, image |-> "",
                           category |-> "Main Course"]
             supabase_item == [id |-> id, name |-> rq.name, description |-> "",
                               price |-> Float(rq.price).val, image_url |-> "",
                               category |-> "Main Course", available |-> TRUE]
             appended == [m EXCEPT !.menu_items = Append(@, menu_item)]
             m2 == IF supabase /\ ~failUpsert
                   THEN [appended EXCEPT !.menu_table = remote_menu_upsert(@, supabase_item)]
                   ELSE appended
         IN IF failEmit THEN FloorError(w, m2, 500, "emit", <<>>)
            ELSE FloorReply(w, m2, 200, [status |-> "success", menu_item |-> menu_item],
                            <<Event("menu_updated", "all", menu_item)>>)

delete_menu_item(w, m, item_id, failEmit) ==
    LET m2 == [m EXCEPT !.menu_items = SelectSeq(@, LAMBDA it : it.id # item_id)] IN
    IF Len(m2.menu_items) < Len(m.menu_items)
    THEN IF failEmit THEN FloorError(w, m2, 500, "emit", <<>>)
         ELSE FloorReply(w, m2, 200, [status |-> "success"],
                         <<Event("menu_item_deleted", "all", [item_id |-> item_id])>>)
    ELSE FloorError(w, m, 404, "Item not found", <<>>)

\* ---------------------------------------------------------------------
\* The floor: customers call staff and place orders, staff answers alerts,
\* edits the menu, updates orders and cleans tables.  The remote service
\* stays reachable when it is configured.

\* writes to the local files in one run of the floor
FloorWrites == 1

Tables == {"5", "VIP1"}

AlertIds == 1..MaxOrders

ItemIds == {"sri-curry", "no-such-item"}

Responses == {"", "On my way"}

MenuEdits == {[name |-> " Rice "], [price |-> "1300.00"],
              [name |-> "Rice", price |-> "abc"]}

NoFaults == [ins |-> FALSE, upd |-> FALSE, load |-> FALSE, k |-> 0,
             emitDb |-> FALSE, emit |-> FALSE]

FloorServe(name, rq, res) ==
    /\ op' = name
    /\ req' = rq
    /\ resp' = [code |-> res.code, body |-> res.body]
    /\ published' = res.events
    /\ rfail' = res.rfail
    /\ remote' = res.w.remote
    /\ disk' = res.w.disk
    /\ staff_alerts' = res.m.staff_alerts
    /\ menu_items' = res.m.menu_items
    /\ menu_table' = res.m.menu_table
    /\ UNCHANGED <<now, inflight, saved, supabase, faults, today, concVars>>

CallStaff(t, failEmit) ==
    /\ nextId < MaxOrders
    /\ LET rq == [table_number |-> t, customer_name |-> "Alice"]
           res == call_staff(World, Mem, rq, nextId + 1, failEmit, now)
       IN /\ FloorServe("call_staff", rq, res)
          /\ nextId' = IF res.code = 200 THEN nextId + 1 ELSE nextId

DismissAlert(id) ==
    /\ FloorServe("dismiss_alert", [alert_id |-> id], dismiss_alert(World, Mem, id))
    /\ UNCHANGED nextId

GetAlerts ==
    /\ FloorServe("get_alerts", NoReq, get_alerts(World, Mem))
    /\ UNCHANGED nextId

ClearTableAlerts(t) ==
    /\ FloorServe("clear_table_alerts", [table_number |-> t],
                  clear_table_alerts(World, Mem, t))
    /\ UNCHANGED nextId

CleanTable(t, f) ==
    /\ disk.stamp <= FloorWrites
    /\ FloorServe("clean_table", [table_id |-> t], clean_table(World, Mem, t, f, now))
    /\ UNCHANGED nextId

ResolveAlert(id, failEmit) ==
    /\ FloorServe("resolve_alert", [alert_id |-> id],
                  resolve_alert(World, Mem, id, failEmit))
    /\ UNCHANGED nextId

RespondToAlert(id, text, failEmit) ==
    /\ FloorServe("respond_to_alert", [alert_id |-> id, response |-> text],
                  respond_to_alert(World, Mem, id, text, failEmit, now))
    /\ UNCHANGED nextId

UpdateItemAvailability(item_id, available, failEmit) ==
    /\ FloorServe("update_item_availability",
                  [item_id |-> item_id, available |-> available],
                  update_item_availability(World, Mem, item_id,
                                           [available |-> available], failEmit))
    /\ UNCHANGED nextId

UpdateMenuItem(item_id, data, failEmit) ==
    /\ FloorServe("update_menu_item", [item_id |-> item_id, data |-> data],
                  update_menu_item(World, Mem, item_id, data, FALSE, failEmit))
    /\ UNCHANGED nextId

DeleteMenuItem(item_id, failEmit) ==
    /\ FloorServe("delete_menu_item", [item_id |-> item_id],
                  delete_menu_item(World, Mem, item_id, failEmit))
    /\ UNCHANGED nextId

NextFloor ==
    \/ disk.stamp <= FloorWrites /\ PlaceOrder(200, NoFaults)
    \/ \E id \in 1..MaxOrders :
          disk.stamp <= FloorWrites /\ UpdateOrderStatus(id, "ready", NoFaults)
    \/ \E id \in 1..MaxOrders :
          disk.stamp <= FloorWrites /\ UpdateOrderStatusNew(id, "ready", NoFaults)
    \/ \E t \in Tables, failEmit \in BOOLEAN : CallStaff(t, failEmit)
    \/ \E id \in AlertIds : DismissAlert(id)
    \/ GetAlerts
    \/ \E t \in Tables : ClearTableAlerts(t)
    \/ \E t \in Tables, emit \in BOOLEAN : CleanTable(t, [NoFaults EXCEPT !.emit = emit])
    \/ \E id \in AlertIds, failEmit \in BOOLEAN : ResolveAlert(id, failEmit)
    \/ \E id \in AlertIds, text \in Responses : RespondToAlert(id, text, FALSE)
    \/ \E item_id \in ItemIds, available \in BOOLEAN :
          UpdateItemAvailability(item_id, available, FALSE)
    \/ \E item_id \in ItemIds, data \in MenuEdits : UpdateMenuItem(item_id, data, FALSE)
    \/ \E item_id \in ItemIds : DeleteMenuItem(item_id, FALSE)

SpecFloor == Init /\ [][NextFloor]_vars

Ids(records) == {records[i].id : i \in DOMAIN records}

StoredOrderIds == Ids(remote.orders) \cup Ids(load_data_local(disk, "orders"))

OrderHandlers404 == {"update_order_status", "update_order_status_new"}

AlertHandlers404 == {"resolve_alert", "respond_to_alert"}

MenuHandlers404 == {"update_item_availability", "update_menu_item", "delete_menu_item"}

\* the step serves a request of one of the handlers that names an id no
\* order, alert or menu item has
NamesUnknownId ==
    \/ op' \in OrderHandlers404 /\ req'.order_id \notin StoredOrderIds
    \/ op' \in AlertHandlers404 /\ req'.alert_id \notin Ids(staff_alerts)
    \/ op' \in MenuHandlers404 /\ req'.item_id \notin Ids(menu_items)

\* the body of the request passes the handler's validation
BodyValid == op' = "respond_to_alert" => req'.response # ""

StateUnchanged ==
    /\ UNCHANGED <<remote, disk, staff_alerts, menu_items, menu_table>>
    /\ published' = <<>>

\* C15: a request with a valid body that names an unknown order, alert or
\* menu-item id is answered with a 404 and leaves all state unchanged, by
\* update_order_status, update_order_status_new, dismiss_alert,
\* resolve_alert, respond_to_alert, update_item_availability,
\* update_menu_item and delete_menu_item.
C15_UnknownIdIs404 ==
    [][((NamesUnknownId \/ (op' = "dismiss_alert"
                            /\ req'.alert_id \notin Ids(staff_alerts)))
        /\ BodyValid)
       => (resp'.code = 404 /\ StateUnchanged)]_vars

PublishingHandlers == {"place_order", "update_order_status", "update_order_status_new"}

\* C16: an emit that raises never fails the request that publishes: no
\* publishing handler answers with the error of a failed emit.
C16_EmitFailureTolerated ==
    op \in PublishingHandlers => ~(resp.code = 500 /\ resp.body.message = "emit")

\* ---------------------------------------------------------------------
\* Status updates with any target string, the remote service reachable
\* when it is configured.

\* target strings: a label, a label the remote table refuses, a string
\* outside the five labels, and the initial label for a backward move
StatusTargets == {"ready", "completed", "delivered", "pending"}

NextStatus ==
    \/ PlaceOrder(200, NoFaults)
    \/ GetOrders(FALSE)
    \/ \E id \in 1..MaxOrders, s \in StatusTargets : UpdateOrderStatus(id, s, NoFaults)
    \/ \E id \in 1..MaxOrders, s \in StatusTargets : UpdateOrderStatusNew(id, s, NoFaults)

SpecStatus == Init /\ [][NextStatus]_vars

StatusLabels == {"pending", "preparing", "ready", "completed", "cancelled"}

LocalOrders == load_data_local(disk, "orders")

\* C17 as stated: the status of every persisted order is one of pending,
\* preparing, ready, completed, cancelled.
C17_StatusIsLabel ==
    /\ \A i \in DOMAIN remote.orders : remote.orders[i].status \in StatusLabels
    /\ \A i \in DOMAIN LocalOrders : LocalOrders[i].status \in StatusLabels

\* the order keeps a status it had in one of the stores (save_data copies
\* the list it loaded), or place_order stored it as pending, or a status
\* update wrote the target string of its request
StatusComesFromRequest(o) ==
    \/ \E i \in DOMAIN remote.orders :
          remote.orders[i].id = o.id /\ remote.orders[i].status = o.status
    \/ \E i \in DOMAIN LocalOrders :
          LocalOrders[i].id = o.id /\ LocalOrders[i].status = o.status
    \/ op' = "place_order" /\ o.status = "pending"
    \/ op' \in StatusHandlers /\ req'.order_id = o.id /\ req'.status = o.status

\* C17: the status of a persisted order is pending from place_order until a
\* status update replaces it with the target string of its request, which
\* need not be one of the five labels; the rows of the remote table carry
\* only the status values the table accepts.
C17_StatusPendingOrRequested ==
    [][/\ \A i \in DOMAIN remote'.orders :
             /\ StatusComesFromRequest(remote'.orders[i])
             /\ remote'.orders[i].status \in RemoteStatuses
       /\ \A i \in DOMAIN LocalOrders' :
             StatusComesFromRequest(LocalOrders'[i])]_vars

C17_Witness ==
    /\ op \in StatusHandlers
    /\ resp.code = 200
    /\ \E i \in DOMAIN LocalOrders :
          LocalOrders[i].id = req.order_id /\ LocalOrders[i].status = "delivered"

\* the table a table-cleaning request names
CleanedTable(rq) == IF Has(rq, "table_id") THEN rq.table_id ELSE rq.table_number

\* C18: after clean_table(t) or clear_table_alerts(t) returns success the
\* alert list holds no alert that call_staff created for table t, and the
\* alerts of the other tables are the ones it held before, in order.
C18_TableAlertsRemoved ==
    [][(op' \in {"clean_table", "clear_table_alerts"} /\ resp'.code = 200)
       => staff_alerts' = SelectSeq(staff_alerts,
                                    LAMBDA a : a.table_number # CleanedTable(req'))]_vars

\* C20: a status update for an existing order with any non-empty target
\* string, whatever the current status, returns success and writes the
\* target string as the order's status: the order list read next shows it.
C20_AnyTargetWritten ==
    [][(op' \in StatusHandlers /\ req'.order_id \in StoredOrderIds)
       => /\ resp'.code = 200
          /\ Listed(load_data([remote |-> remote', disk |-> disk'], "orders", FALSE).ret,
                    req'.order_id, req'.status)]_vars

\* ---------------------------------------------------------------------
\* Two processes over the same stores, each in one update_daily_totals
\* call: the load and the save of a call are separate steps, and nothing
\* keeps the other process from running between them.

ApplyCalls == [amount : {200, 50}, order_type : {"digital", "manual"}]

\* the stores before the two calls: empty, or after one earlier order
InitApply ==
    /\ InitCommon
    /\ supabase \in BOOLEAN
    /\ faults = FALSE

ApplyEarlier ==
    /\ op = "init"
    /\ LET res == update_daily_totals(World, 200, "digital", FALSE, 0, now) IN
       /\ remote' = res.w.remote
       /\ disk' = res.w.disk
    /\ op' = "earlier"
    /\ UNCHANGED <<now, inflight, saved, memVars, concVars, supabase, faults, today, nextId,
                   req, resp, published, rfail>>

\* daily_totals = load_data('daily_totals')
ApplyLoad(p, call) ==
    /\ threads[p].pc = "idle"
    /\ threads' = [threads EXCEPT ![p] =
                      [pc |-> "loaded", call |-> call,
                       local |-> load_data(World, "daily_totals", FALSE).ret]]
    /\ op' = "apply_load"
    /\ UNCHANGED <<disk, now, inflight, saved, memVars, storage_lock, supabase, faults,
                   remote, today, nextId, req, resp, published, rfail>>

\* the rest of the call: count the order in the loaded list, save_data
ApplySave(p) ==
    /\ threads[p].pc = "loaded"
    /\ LET call == threads[p].call
           sv == save_data(World, "daily_totals",
                           with_order(threads[p].local, call.amount, call.order_type),
                           0, now)
       IN /\ remote' = sv.w.remote
          /\ disk' = sv.w.disk
    /\ threads' = [threads EXCEPT ![p].pc = "returned"]
    /\ op' = "apply_save"
    /\ UNCHANGED <<now, inflight, saved, memVars, storage_lock, supabase, faults,
                   today, nextId, req, resp, published, rfail>>

NextApply ==
    \/ ApplyEarlier
    \/ \E p \in Threads, call \in ApplyCalls : ApplyLoad(p, call)
    \/ \E p \in Threads : ApplySave(p)

SpecApply == InitApply /\ [][NextApply]_vars

\* total_orders of today's record in a daily-totals list, 0 without one
TotalOrdersIn(daily_totals) ==
    LET at == FindDate(daily_totals, today) IN
    IF at = 0 THEN 0 ELSE daily_totals[at].total_orders

TotalOrdersNow == TotalOrdersIn(load_data(World, "daily_totals", FALSE).ret)

Max(a, b) == IF a >= b THEN a ELSE b

BothReturned == \A p \in Threads : threads[p].pc = "returned"

\* C21: update_daily_totals is an unprotected read-modify-write of the whole
\* collection: when two calls of different processes have both returned,
\* today's total_orders is one more than the larger of the two counts the
\* calls loaded, so it has grown by one only when both loaded the same
\* list (one update lost) and by two when the second loaded after the
\* first saved.
C21_LastWriteWins ==
    BothReturned =>
        TotalOrdersNow = 1 + Max(TotalOrdersIn(threads[1].local),
                                 TotalOrdersIn(threads[2].local))

\* both calls have returned and today's total_orders has grown by only 1
C21_Witness ==
    /\ BothReturned
    /\ TotalOrdersIn(threads[1].local) = TotalOrdersIn(threads[2].local)
    /\ TotalOrdersNow = TotalOrdersIn(threads[1].local) + 1

\* ---------------------------------------------------------------------
\* Two threads of one process in local mode, each in one
\* add_document_local call.  A thread takes storage_lock where the code
\* enters "with storage_lock" and gives it back where the block is left,
\* by return or by exception.

ThreadCollections == {"orders", "manual_orders"}

ThreadDoc(t) == MakeOrder(t, "Alice", "5", <<ItemX(2)>>, 200, today)

\* json.loads of the live file raises JSONDecodeError
JsonDecodeError(d, c) ==
    /\ d.files[c].exists
    /\ Decodes(d.files[c].text)
    /\ d.files[c].text # <<>>
    /\ ~json_loads(d.files[c].text).ok

ThreadStep(t, name) ==
    /\ op' = name
    /\ req' = [thread |-> t]
    /\ UNCHANGED <<now, inflight, saved, memVars, supabase, faults, remote, today, nextId,
                   resp, published, rfail>>

\* load_data_local: storage_lock acquired
ThLoadEnter(t, c) ==
    /\ threads[t].pc = "idle"
    /\ storage_lock = 0
    /\ storage_lock' = t
    /\ threads' = [threads EXCEPT ![t] =
                      [pc |-> "load_locked", call |-> [c |-> c, doc |-> ThreadDoc(t)],
                       local |-> <<>>]]
    /\ UNCHANGED disk
    /\ ThreadStep(t, "load_enter")

\* the live file is read and parsed; the lock is released on return and
\* on the exception that starts load_backup_data
ThLoadRead(t) ==
    /\ threads[t].pc = "load_locked"
    /\ storage_lock' = 0
    /\ threads' = IF JsonDecodeError(disk, threads[t].call.c)
                  THEN [threads EXCEPT ![t].pc = "recover"]
                  ELSE [threads EXCEPT ![t].pc = "loaded",
                                       ![t].local = load_data_local(disk, threads[t].call.c)]
    /\ UNCHANGED disk
    /\ ThreadStep(t, "load_read")

\* load_backup_data reads the newest backup
ThRecover(t) ==
    /\ threads[t].pc = "recover"
    /\ threads' = [threads EXCEPT ![t].pc = "loaded",
                                  ![t].local = load_backup_data(disk, threads[t].call.c)]
    /\ UNCHANGED <<disk, storage_lock>>
    /\ ThreadStep(t, "recover")

\* current_data.append(document_data); save_data_local: storage_lock acquired
ThSaveEnter(t) ==
    /\ threads[t].pc = "loaded"
    /\ storage_lock = 0
    /\ storage_lock' = t
    /\ threads' = [threads EXCEPT ![t].pc = "save_locked",
                                  ![t].local = Append(@, threads[t].call.doc)]
    /\ UNCHANGED disk
    /\ ThreadStep(t, "save_enter")

ThBackup(t) ==
    /\ threads[t].pc = "save_locked"
    /\ disk' = create_backup(disk, threads[t].call.c, now)
    /\ threads' = [threads EXCEPT ![t].pc = "backed_up"]
    /\ UNCHANGED storage_lock
    /\ ThreadStep(t, "backup")

\* the temporary file is written; when the write raises (fail) the lock is
\* released and the handler goes on to remove the temporary file
ThWriteTmp(t, fail) ==
    /\ threads[t].pc = "backed_up"
    /\ LET c == threads[t].call.c
           text == json_dump(threads[t].local)
       IN disk' = write_tmp(open_tmp(disk, c), c, text, IF fail THEN 1 ELSE Len(text))
    /\ threads' = [threads EXCEPT ![t].pc = IF fail THEN "cleanup" ELSE "written"]
    /\ storage_lock' = IF fail THEN 0 ELSE storage_lock
    /\ ThreadStep(t, "write_tmp")

\* os.replace, which raises when the temporary file is gone
ThReplace(t) ==
    /\ threads[t].pc = "written"
    /\ LET c == threads[t].call.c IN
       IF disk.tmp[c].exists
       THEN /\ disk' = os_replace(disk, c)
            /\ threads' = [threads EXCEPT ![t].pc = "returned"]
       ELSE /\ disk' = disk
            /\ threads' = [threads EXCEPT ![t].pc = "cleanup"]
    /\ storage_lock' = 0
    /\ ThreadStep(t, "replace")

\* the except branch of save_data_local: os.remove of the temporary file
ThCleanup(t) ==
    /\ threads[t].pc = "cleanup"
    /\ disk' = [disk EXCEPT !.tmp[threads[t].call.c] = NoFile]
    /\ threads' = [threads EXCEPT ![t].pc = "returned"]
    /\ UNCHANGED storage_lock
    /\ ThreadStep(t, "cleanup")

\* the live file is damaged from outside the process
ThDamage(c, kind) ==
    /\ disk.files[c].exists
    /\ Decodes(disk.files[c].text)
    /\ json_loads(disk.files[c].text).ok
    /\ disk' = [disk EXCEPT !.files[c].text = Damage(@, kind)]
    /\ op' = "damage"
    /\ req' = [c |-> c, kind |-> kind]
    /\ UNCHANGED <<now, inflight, saved, memVars, concVars, supabase, faults, remote, today,
                   nextId, resp, published, rfail>>

NextThreads ==
    \/ \E t \in Threads, c \in ThreadCollections : ThLoadEnter(t, c)
    \/ \E t \in Threads : ThLoadRead(t)
    \/ \E t \in Threads : ThSaveEnter(t)
    \/ \E t \in Threads : ThBackup(t)
    \/ \E t \in Threads : ThWriteTmp(t, FALSE)
    \/ \E t \in Threads : ThReplace(t)

SpecThreads == InitFS /\ [][NextThreads]_vars

\* the same with file damage and with writes that raise
NextThreadsFaulty ==
    \/ \E t \in Threads, c \in ThreadCollections : ThLoadEnter(t, c)
    \/ \E t \in Threads : ThLoadRead(t)
    \/ \E t \in Threads : ThRecover(t)
    \/ \E t \in Threads : ThSaveEnter(t)
    \/ \E t \in Threads : ThBackup(t)
    \/ \E t \in Threads, fail \in BOOLEAN : ThWriteTmp(t, fail)
    \/ \E t \in Threads : ThReplace(t)
    \/ \E t \in Threads : ThCleanup(t)
    \/ \E c \in ThreadCollections, kind \in DamageKinds : ThDamage(c, kind)

SpecThreadsFaulty == InitFS /\ [][NextThreadsFaulty]_vars

\* the positions at which a thread reads or writes a collection file, a
\* temporary file or a backup file
InFileIO == {"load_locked", "recover", "save_locked", "backed_up", "written", "cleanup"}

\* C22: a thread is inside local file I/O (load, backup creation and
\* rotation, temporary-file write and rename, recovery from backup,
\* temporary-file cleanup) only while it holds storage_lock, so no two
\* threads are inside local file I/O at the same time.
C22_FileIOUnderLock ==
    /\ \A t \in Threads : threads[t].pc \in InFileIO => storage_lock = t
    /\ \A t, u \in Threads :
          (threads[t].pc \in InFileIO /\ threads[u].pc \in InFileIO) => t = u

\* C26: when two add_document_local calls on the same collection have run
\* concurrently in two threads and both have returned, load_data_local of
\* that collection contains both new records.
C26_BothPersisted ==
    (BothReturned /\ threads[1].call.c = threads[2].call.c)
        => \A t \in Threads :
              threads[t].call.doc.id \in Ids(load_data_local(disk, threads[t].call.c))

\* ---------------------------------------------------------------------
\* Two threads of one process, each serving one alert request.  The
\* handlers take no lock: dismiss_alert builds the filtered list and then
\* rebinds the global, call_staff appends to the list the global names,
\* resolve_alert finds the index and then pops it.

AlertOf(id, t) ==
    [id |-> id, table_number |-> t, customer_name |-> "Alice", timestamp |-> 0,
     type |-> "call_staff"]

\* two customers have called staff before the two requests arrive
InitRace ==
    /\ disk = EmptyDisk
    /\ now = 0
    /\ inflight = Idle
    /\ saved = [c \in Collections |-> NeverSaved]
    /\ op = "init"
    /\ req = NoReq
    /\ resp = NoReq
    /\ published = <<>>
    /\ rfail = FALSE
    /\ today = 1
    /\ nextId = 2
    /\ remote = [c \in Collections |-> <<>>]
    /\ staff_alerts = <<AlertOf(1, "5"), AlertOf(2, "VIP1")>>
    /\ menu_items = DefaultMenu
    /\ menu_table = <<>>
    /\ threads = [t \in Threads |-> IdleThread]
    /\ storage_lock = 0
    /\ supabase = FALSE
    /\ faults = FALSE

RaceStep(t, name) ==
    /\ op' = name
    /\ req' = [thread |-> t]
    /\ UNCHANGED <<disk, now, inflight, saved, menu_items, menu_table, storage_lock,
                   supabase, faults, remote, today, resp, published, rfail>>

\* dismiss_alert: the list comprehension over the current list
RaceDismissFilter(t, alert_id) ==
    /\ threads[t].pc = "idle"
    /\ threads' = [threads EXCEPT ![t] =
                      [pc |-> "filtered",
                       call |-> [kind |-> "dismiss_alert", alert_id |-> alert_id, code |-> 0],
                       local |-> dismiss_alert(World, Mem, alert_id).m.staff_alerts]]
    /\ UNCHANGED <<staff_alerts, nextId>>
    /\ RaceStep(t, "dismiss_filter")

\* dismiss_alert: the global is bound to the filtered list; success
RaceDismissStore(t) ==
    /\ threads[t].pc = "filtered"
    /\ staff_alerts' = threads[t].local
    /\ threads' = [threads EXCEPT ![t].pc = "returned", ![t].call.code = 200]
    /\ UNCHANGED nextId
    /\ RaceStep(t, "dismiss_store")

\* call_staff: the alert is appended to the list the global names; success
RaceCallStaff(t, table) ==
    /\ threads[t].pc = "idle"
    /\ nextId < 2 + MaxOrders
    /\ LET rq == [table_number |-> table, customer_name |-> "Alice"]
           res == call_staff(World, Mem, rq, nextId + 1, FALSE, now)
       IN /\ staff_alerts' = res.m.staff_alerts
          /\ threads' = [threads EXCEPT ![t] =
                            [pc |-> "returned",
                             call |-> [kind |-> "call_staff", alert_id |-> nextId + 1,
                                       code |-> res.code],
                             local |-> <<res.m.staff_alerts[Len(res.m.staff_alerts)]>>]]
    /\ nextId' = nextId + 1
    /\ RaceStep(t, "call_staff")

\* resolve_alert: the loop finds the index of the alert, or answers 404
RaceResolveFind(t, alert_id) ==
    /\ threads[t].pc = "idle"
    /\ LET at == FindId(staff_alerts, alert_id) IN
       threads' = [threads EXCEPT ![t] =
                      [pc |-> IF at = 0 THEN "returned" ELSE "found",
                       call |-> [kind |-> "resolve_alert", alert_id |-> alert_id,
                                 code |-> IF at = 0 THEN 404 ELSE 0],
                       local |-> <<at>>]]
    /\ UNCHANGED <<staff_alerts, nextId>>
    /\ RaceStep(t, "resolve_find")

\* resolve_alert: staff_alerts.pop(i) on the list the global names now; an
\* index past its end raises IndexError and the request answers 500
RaceResolvePop(t) ==
    /\ threads[t].pc = "found"
    /\ LET i == threads[t].local[1] IN
       IF i <= Len(staff_alerts)
       THEN /\ staff_alerts' = pop(staff_alerts, i)
            /\ threads' = [threads EXCEPT ![t].pc = "returned", ![t].call.code = 200]
       ELSE /\ staff_alerts' = staff_alerts
            /\ threads' = [threads EXCEPT ![t].pc = "returned", ![t].call.code = 500]
    /\ UNCHANGED nextId
    /\ RaceStep(t, "resolve_pop")

NextRace ==
    \/ \E t \in Threads, id \in 1..2 : RaceDismissFilter(t, id)
    \/ \E t \in Threads : RaceDismissStore(t)
    \/ \E t \in Threads, table \in Tables : RaceCallStaff(t, table)
    \/ \E t \in Threads, id \in 1..2 : RaceResolveFind(t, id)
    \/ \E t \in Threads : RaceResolvePop(t)

SpecRace == InitRace /\ [][NextRace]_vars

BothSucceeded == \A t \in Threads : threads[t].pc = "returned" /\ threads[t].call.code = 200

\* what the request of thread u does to a list when it takes effect after
\* the other request
EffectOf(u, list) ==
    CASE threads[u].call.kind = "dismiss_alert" -> threads[u].local
      [] threads[u].call.kind = "call_staff" -> list \o threads[u].local
      [] OTHER -> pop(list, threads[u].local[1])

\* C23: the alert list is rebound without a lock, so the last store wins:
\* when two alert requests have both returned success and one of them is a
\* dismiss_alert, the list is the filtered copy of that dismiss_alert,
\* which lacks the alert it dismissed, either as it is or with the other
\* request applied on top; the other request's change is lost when it
\* took effect between the filter and the store.
C23_LastStoreWins ==
    BothSucceeded =>
        \A t, u \in Threads :
            (t # u /\ threads[t].call.kind = "dismiss_alert")
            => /\ threads[t].call.alert_id \notin Ids(threads[t].local)
               /\ \/ staff_alerts = threads[t].local
                  \/ staff_alerts = EffectOf(u, threads[t].local)
                  \/ threads[u].call.kind = "dismiss_alert"
                     /\ staff_alerts = threads[u].local

\* two dismiss_alert calls have returned success and a dismissed alert is
\* still in the list
C23_Witness ==
    /\ BothSucceeded
    /\ \A t \in Threads : threads[t].call.kind = "dismiss_alert"
    /\ \E t \in Threads : threads[t].call.alert_id \in Ids(staff_alerts)

\* ---------------------------------------------------------------------
\* The menu and the order book side by side: orders are placed, manual
\* orders added, staff called and alerts dismissed, the menu is edited and
\* read, while the remote service comes and goes.

NewItems == {[name |-> "Curry", price |-> "1300.00"]}

\* the uuid4 of the n-th identifier, as a menu-item id
ItemUuid(n) == "item-" \o ToString(n)

AddMenuItem(rq, failEmit) ==
    /\ nextId < MaxOrders
    /\ LET res == add_menu_item(World, Mem, rq, ItemUuid(nextId + 1), Down, failEmit) IN
       /\ FloorServe("add_menu_item", rq, res)
       /\ nextId' = IF res.m.menu_items # menu_items THEN nextId + 1 ELSE nextId

GetMenu ==
    /\ FloorServe("get_menu", NoReq, get_menu(World, Mem, Down))
    /\ UNCHANGED nextId

FrameOutage ==
    /\ supabase
    /\ op # "outage"
    /\ faults' = ~faults
    /\ op' = "outage"
    /\ UNCHANGED <<disk, now, inflight, saved, memVars, concVars, supabase, remote, today,
                   nextId, req, resp, published, rfail>>

NextFrame ==
    \/ PlaceOrder(200, Raises(FALSE, FALSE))
    \/ AddManualOrder(Raises(FALSE, FALSE))
    \/ CallStaff("5", FALSE)
    \/ \E id \in AlertIds : DismissAlert(id)
    \/ \E rq \in NewItems : AddMenuItem(rq, FALSE)
    \/ UpdateItemAvailability("sri-curry", FALSE, FALSE)
    \/ UpdateMenuItem("sri-curry", [price |-> "1300.00"], FALSE)
    \/ \E item_id \in {"kottu-roti", ItemUuid(1)} : DeleteMenuItem(item_id, FALSE)
    \/ GetMenu
    \/ FrameOutage

SpecFrame == Init /\ [][NextFrame]_vars

FrameOps == {"place_order", "add_manual_order", "call_staff", "dismiss_alert",
             "add_menu_item", "update_item_availability", "update_menu_item",
             "delete_menu_item"}

\* every record of the list before is in the list after, field by field
AllKept(before, after) ==
    /\ Len(after) >= Len(before)
    /\ \A i \in DOMAIN before : \E j \in DOMAIN after : after[j] = before[i]

\* C24, for requests served one after another: place_order of another
\* order, add_manual_order, call_staff, dismiss_alert and every menu add,
\* update, availability change and delete leave every field of every
\* previously persisted order unchanged and remove no order, in the remote
\* table and in the local file.
C24_OrdersFramedInTurn ==
    [][op' \in FrameOps
       => /\ AllKept(remote.orders, remote'.orders)
          /\ AllKept(LocalOrders, LocalOrders')]_vars

\* C24: storing another order (the add_document_local of place_order)
\* leaves every field of every previously persisted order unchanged and
\* removes no order, also when two requests are served at the same time.
C24_OrdersFramed ==
    [][AllKept(LocalOrders, LocalOrders')]_vars

\* ---------------------------------------------------------------------
\* Orders are placed and listed, the order book is cleared, days go by;
\* the select and the deletes of clear_all_orders may raise.

NextClear ==
    \/ PlaceOrder(200, NoFaults)
    \/ GetOrders(FALSE)
    \/ \E failSel \in Faults, del \in (IF supabase THEN 0..1 ELSE {0}) :
          ClearAllOrders([sel |-> failSel, del |-> del, load |-> FALSE, k |-> 0])
    \/ NextDay

SpecClear == Init /\ [][NextClear]_vars

WorldAfter == [remote |-> remote', disk |-> disk']

Counters == {"digital_orders", "manual_orders", "digital_revenue", "manual_revenue",
             "total_orders", "total_revenue"}

\* C25: after clear_all_orders returns success, get_orders returns an empty
\* list, today's daily-totals record has its six counters at zero and the
\* records of other dates are the ones from before, in local mode and in
\* remote mode, also when the remote select or a remote delete raises.
C25_ClearedAfterSuccess ==
    [][(op' = "clear_all_orders" /\ resp'.code = 200)
       => LET before == load_data(World, "daily_totals", FALSE).ret
              after == load_data(WorldAfter, "daily_totals", FALSE).ret
          IN /\ get_orders(WorldAfter, FALSE).body = <<>>
             /\ \A i \in DOMAIN after :
                   after[i].date = today => \A k \in Counters : after[i][k] = 0
             /\ \A i \in DOMAIN before :
                   before[i].date # today => \E j \in DOMAIN after : after[j] = before[i]]_vars

\* on_join_customer: the room a customer of that table joins
customer_room(table_number) == "table_" \o table_number

\* C27: respond_to_alert for an existing alert publishes staff_response to
\* the room "table_<n>" of the table_number call_staff recorded in the
\* alert, the room the customers of that table joined.
C27_ResponseReachesTable ==
    [][(op' = "respond_to_alert" /\ resp'.code = 200)
       => LET alert == staff_alerts[FindId(staff_alerts, req'.alert_id)] IN
          /\ Len(published') = 1
          /\ published'[1].name = "staff_response"
          /\ published'[1].to = customer_room(alert.table_number)]_vars

\* the event carries the contents of an order
CarriesOrder(e) ==
    \/ Has(e.payload, "customer_name") /\ Has(e.payload, "items")
    \/ /\ Has(e.payload, "data")
       /\ Has(e.payload.data, "customer_name")
       /\ Has(e.payload.data, "items")

\* C29: placing an order publishes the contents of the order (customer
\* name, table, items, total) to the "staff" room only, in every backend
\* mode.
C29_OrderOnlyToStaff ==
    op = "place_order"
        => \A i \in DOMAIN published : CarriesOrder(published[i]) => published[i].to = "staff"

\* C28: a menu change answered with success is visible to the get_menu
\* served next: an added item is listed, a deleted item is not, and an item
\* whose availability was set is listed with that availability, with the
\* remote service reachable or not.
C28_MenuChangesVisible ==
    [][(/\ op \in {"add_menu_item", "delete_menu_item", "update_item_availability"}
        /\ resp.code = 200
        /\ op' = "get_menu")
       => /\ op = "add_menu_item" => resp.body.menu_item.id \in Ids(resp'.body)
          /\ op = "delete_menu_item" => req.item_id \notin Ids(resp'.body)
          /\ op = "update_item_availability"
                => \E i \in DOMAIN resp'.body :
                      /\ resp'.body[i].id = req.item_id
                      /\ Has(resp'.body[i], "available")
                      /\ resp'.body[i].available = req.available]_vars

\* the order after is the order before but for its status and its update
\* timestamp
OnlyStatusChanged(before, after) ==
    \A k \in (DOMAIN before \cup DOMAIN after) \ {"status", "updated_at"} :
        Has(before, k) /\ Has(after, k) /\ before[k] = after[k]

\* the store after a status update of order_id: as many orders, one per
\* id, the other orders as they were
OnlyStatusOf(order_id, before, after) ==
    /\ Len(after) = Len(before)
    /\ \A i, j \in DOMAIN after : after[i].id = after[j].id => i = j
    /\ \A i \in DOMAIN before :
          IF before[i].id = order_id
          THEN OnlyStatusChanged(before[i], after[i])
          ELSE after[i] = before[i]

\* C30: a status update answered with success changes only the status and
\* the update timestamp of the order it names: in the remote table and in
\* the local file the number of orders is unchanged, no order is
\* duplicated, and every other order keeps every field, for both update
\* handlers and in both backend modes.
C30_OnlyStatusChanges ==
    [][(op' \in StatusHandlers /\ resp'.code = 200)
       => /\ OnlyStatusOf(req'.order_id, remote.orders, remote'.orders)
          /\ OnlyStatusOf(req'.order_id, LocalOrders, LocalOrders')]_vars

====
